---- MODULE Spec2Model ----
(***************************************************************************)
(* Model of tor-proto's per-hop StreamMap                                  *)
(* (src/crates/tor-proto/src/circuit/streammap.rs).                        *)
(*                                                                         *)
(* The map `m` is a CountedHashMap<StreamId, StreamEnt, IsOpen>: a hash    *)
(* map plus a cached count of the entries satisfying IsOpen.  `rxs` is a   *)
(* StreamPollSet keyed by StreamId, holding for every key a priority and   *)
(* the receiving half of an mpsc channel.  Both containers live in other   *)
(* files of the crate; their operations are modelled by the cm_* and ps_*  *)
(* operators below.                                                        *)
(***************************************************************************)
EXTENDS Integers, Sequences, FiniteSets, TLC

(* ------------------------------ bounds --------------------------------- *)

\* Cap on next_priority (a u64 counter in the code); it also caps the number
\* of messages queued, each of which takes one priority to be taken.
MaxPriority == 2

(* --------------------------- program constants ------------------------- *)

\* Largest StreamId: StreamId wraps a NonZeroU16.
STREAM_ID_MAX == 65535
\* Number of probes of add_ent's loop, `for _ in 1..=65536`.
PROBE_LIMIT == 65536
\* crate::circuit::reactor::RECV_WINDOW_INIT
RECV_WINDOW_INIT == 500

\* Values of next_stream_id that StreamMap::new may draw (any NonZeroU16).
InitIds == {STREAM_ID_MAX}
\* Ids the caller passes to add_ent_with_id.
WithIds == {1}
\* Send windows handed to add_ent / add_ent_with_id: StreamSendWindow::new(500).
SendWindows == {500}
\* Outbound messages a stream owner queues.
Msgs == {"DATA"}
\* Amounts by which the reactor raises `dropped` through get_mut.
DroppedSteps == {RECV_WINDOW_INIT}
\* Cap on the `dropped` counter of an open entry (a u16 in the code): the
\* first value reached that the receive window cannot be debited by.
MaxDropped == 2 * RECV_WINDOW_INIT

TerminateReason == {"StreamTargetClosed", "ExplicitEnd"}

VARIABLES
    m,              \* [map: StreamId -|-> StreamEnt, count: Nat]
    rxs,            \* StreamId -|-> [priority, pending, closed]
    next_stream_id, \* the next StreamId add_ent tries
    next_priority,  \* the next Priority handed out
    panicked,       \* "none", or the message of the panic that ended the run
    last,           \* the last call made on the map and what it returned
    hist,           \* per stream id: what has happened since it was created
    tracker,        \* the timeout trackers of tor-hsservice's timeout_track.rs
    challenge,      \* the Challenge of tor-hspow's v1/challenge.rs
    filter,         \* the CountingFilter of tor-basic-utils' iter.rs
    policy,         \* the PortPolicy of tor-netdoc's policy/short.rs
    ffi,            \* an FFI call of arti-rpc-client-core's ffi/util.rs
    keymanip        \* the key conversions of tor-llcrypto's pk/keymanip.rs

vars == <<m, rxs, next_stream_id, next_priority, panicked, last, hist,
          tracker, challenge, filter, policy, ffi, keymanip>>

\* The state of the stream map, and the state outside it.
mapvars == <<m, rxs, next_stream_id, next_priority, panicked, last, hist>>
utils == <<filter, policy, ffi, keymanip>>
others == <<tracker, challenge, utils>>

\* No timeout tracker and no challenge have been made.
NoFilter == [phase |-> "none"]
NoPolicy == [phase |-> "none"]
NoFfi == [phase |-> "none"]
NoKeys == [phase |-> "none"]
IdleUtils ==
    /\ filter = NoFilter
    /\ policy = NoPolicy
    /\ ffi = NoFfi
    /\ keymanip = NoKeys
NoTracker == [phase |-> "none"]
NoChallenge ==
    [bytes |-> << >>, panic |-> FALSE, built |-> FALSE,
     instance |-> [service |-> << >>, seed |-> << >>],
     effort |-> <<0, 0>>, nonce |-> << >>, incs |-> 0,
     op |-> [name |-> "none", value |-> <<0, 0>>, ret |-> << >>]]

(* ------------------------------ StreamEnt ------------------------------ *)

\* Absence of an entry (Entry::Vacant, Option::None).
NoEnt ==
    [tag |-> "None", send_window |-> 0, dropped |-> 0,
     recv_window |-> 0, explicitly_dropped |-> FALSE]

\* StreamEnt::Open(OpenStreamEnt { sink, send_window, dropped: 0, cmd_checker })
OpenEnt(send_window) ==
    [tag |-> "Open", send_window |-> send_window, dropped |-> 0,
     recv_window |-> 0, explicitly_dropped |-> FALSE]

\* StreamEnt::EndReceived
EndReceivedEnt ==
    [tag |-> "EndReceived", send_window |-> 0, dropped |-> 0,
     recv_window |-> 0, explicitly_dropped |-> FALSE]

\* StreamEnt::EndSent(EndSentStreamEnt { half_stream, explicitly_dropped })
\* where half_stream = HalfStream::new(send_window, recv_window, cmd_checker)
EndSentEnt(send_window, recv_window, explicitly_dropped) ==
    [tag |-> "EndSent", send_window |-> send_window, dropped |-> 0,
     recv_window |-> recv_window, explicitly_dropped |-> explicitly_dropped]

\* counted_map::Predicate for IsOpen: matches!(item, StreamEnt::Open(_))
IsOpen(item) == item.tag = "Open"

(* ---------------- CountedHashMap (crate file counted_map.rs) ----------- *)

cm_new == [map |-> << >>, count |-> 0]

cm_get(cm, k) == IF k \in DOMAIN cm.map THEN cm.map[k] ELSE NoEnt

\* insert, Entry::Vacant::insert and Entry::Occupied::insert: store v under k
\* and keep the count of IsOpen entries.
cm_insert(cm, k, v) ==
    [map   |-> [x \in DOMAIN cm.map \cup {k} |-> IF x = k THEN v ELSE cm.map[x]],
     count |-> cm.count
               - (IF IsOpen(cm_get(cm, k)) THEN 1 ELSE 0)
               + (IF IsOpen(v) THEN 1 ELSE 0)]

\* remove and Entry::Occupied::remove_entry
cm_remove(cm, k) ==
    [map   |-> [x \in DOMAIN cm.map \ {k} |-> cm.map[x]],
     count |-> cm.count - (IF IsOpen(cm_get(cm, k)) THEN 1 ELSE 0)]

\* get_mut_unchecked / iter_mut_unchecked: the caller overwrites the value in
\* place; the count is not recomputed.
cm_set_unchecked(cm, k, v) ==
    [map |-> [cm.map EXCEPT ![k] = v], count |-> cm.count]

cm_count(cm) == cm.count

(* ---------------- StreamPollSet (crate file stream_poll_set.rs) -------- *)

\* A freshly created mpsc::Receiver whose senders are alive.
NewRx(priority) == [priority |-> priority, pending |-> << >>, closed |-> FALSE]

\* try_insert succeeds when the key is not yet in the set.
ps_can_insert(ps, k) == k \notin DOMAIN ps

ps_insert(ps, k, priority) ==
    [x \in DOMAIN ps \cup {k} |-> IF x = k THEN NewRx(priority) ELSE ps[x]]

\* remove returns Some(..) when the key was present.
ps_remove(ps, k) == [x \in DOMAIN ps \ {k} |-> ps[x]]

\* A stream is ready when it has a message to yield or its senders are gone.
ps_ready(ps, k) == k \in DOMAIN ps /\ (Len(ps[k].pending) > 0 \/ ps[k].closed)

RECURSIVE ps_sorted(_, _)
ps_sorted(ps, keys) ==
    IF keys = {} THEN << >>
    ELSE LET k == CHOOSE x \in keys : \A y \in keys : ps[x].priority <= ps[y].priority
         IN  <<k>> \o ps_sorted(ps, keys \ {k})

\* poll_ready_iter: the ready keys, in ascending priority
ps_poll_ready_iter(ps) == ps_sorted(ps, {k \in DOMAIN ps : ps_ready(ps, k)})

\* take_ready_value_and_reprioritize succeeds when the key has Some(value) ready
ps_can_take(ps, k) == k \in DOMAIN ps /\ Len(ps[k].pending) > 0

ps_take(ps, k, new_priority) ==
    [ps EXCEPT ![k] = [priority |-> new_priority,
                       pending  |-> Tail(ps[k].pending),
                       closed   |-> ps[k].closed]]

\* The number of messages waiting in all the channels of the set.
RECURSIVE ps_queued(_, _)
ps_queued(ps, keys) ==
    IF keys = {} THEN 0
    ELSE LET k == CHOOSE x \in keys : TRUE
         IN  Len(ps[k].pending) + ps_queued(ps, keys \ {k})

Queued(ps) == ps_queued(ps, DOMAIN ps)

(* ------------------------------ helpers -------------------------------- *)

\* wrapping_next_stream_id as a wrapping increment of the u16
wrapping_next_stream_id_u16(id) == (id + 1) % 65536

\* wrapping_next_stream_id staying at the largest id
wrapping_next_stream_id_saturating(id) ==
    IF id + 1 > STREAM_ID_MAX THEN STREAM_ID_MAX ELSE id + 1

\* fn wrapping_next_stream_id(id): checked_add(1), or 1 on overflow
wrapping_next_stream_id(id) == IF id + 1 > STREAM_ID_MAX THEN 1 ELSE id + 1

\* probe taking the smallest vacant id, wherever next_stream_id stands
RECURSIVE probe_from_one(_, _, _)
probe_from_one(cm, id, n) ==
    IF n = 0 THEN 0
    ELSE IF (PROBE_LIMIT - n + 1) \notin DOMAIN cm.map THEN PROBE_LIMIT - n + 1
    ELSE probe_from_one(cm, id, n - 1)

\* The loop of add_ent: starting at id, the first id with a vacant entry among
\* the next n ids probed; 0 when all n are occupied.
RECURSIVE probe(_, _, _)
probe(cm, id, n) ==
    IF n = 0 THEN 0
    ELSE IF id \notin DOMAIN cm.map THEN id
    ELSE probe(cm, wrapping_next_stream_id(id), n - 1)

\* The id that is n wrapping steps after id.
RECURSIVE advance(_, _)
advance(id, n) == IF n = 0 THEN id ELSE advance(wrapping_next_stream_id(id), n - 1)

\* The record of a call: operation, arguments, the entry found, the result.
Call(op, id, why, pre, ret) ==
    [op |-> op, id |-> id, why |-> why, pre |-> pre, ret |-> ret,
     val |-> "none", yielded |-> << >>]

\* History of a stream id since the add that created its entry: the number of
\* times terminate returned Send for it, whether its END has arrived, the
\* streams that had a message waiting when it last gave one and have given
\* none since (owed), and those of them that have given one since (served).
NewHist == [sends |-> 0, ended |-> FALSE, owed |-> {}, served |-> {}]

\* A new stream under k: nobody is waiting for the stream k was before.
hist_set(h, k, v) ==
    [x \in DOMAIN h \cup {k} |->
        IF x = k THEN v
        ELSE [h[x] EXCEPT !.owed = @ \ {k}, !.served = @ \ {k}]]

\* The stream sid has given a message while the streams in waiting had one.
hist_took(h, sid, waiting) ==
    [x \in DOMAIN h |->
        IF x = sid THEN [h[x] EXCEPT !.owed = waiting, !.served = {}]
        ELSE IF sid \in h[x].owed
             THEN [h[x] EXCEPT !.owed = @ \ {sid}, !.served = @ \cup {sid}]
             ELSE h[x]]

\* The history of k is dropped once its END has arrived and its entry is gone.
hist_prune(h, map) ==
    [x \in {k \in DOMAIN h : ~(h[k].ended /\ k \notin DOMAIN map)} |-> h[x]]

\* The record left by the steps that are not calls on the map.
Env == [op |-> "env", id |-> 0, why |-> "none", pre |-> NoEnt, ret |-> "Ok",
        val |-> "none", yielded |-> << >>]

Running == panicked = "none"

\* Ids on which the reactor calls the map.
OpIds == DOMAIN m.map \cup DOMAIN rxs \cup WithIds

(* ------------------------------ StreamMap ------------------------------ *)

\* StreamMap::new
Init ==
    /\ m = cm_new
    /\ rxs = << >>
    /\ next_stream_id \in InitIds
    /\ next_priority = 0
    /\ panicked = "none"
    /\ last = Call("new", 0, "none", NoEnt, "Ok")
    /\ hist = << >>
    /\ tracker = NoTracker
    /\ challenge = NoChallenge
    /\ IdleUtils

\* StreamMap::n_open_streams
n_open_streams == cm_count(m)

\* StreamMap::get_mut
get_mut(id) == cm_get(m, id)

\* insert_open using the next priority without taking it
insert_open_reuse_priority(op, id, send_window, next_id) ==
    /\ m' = cm_insert(m, id, OpenEnt(send_window))
    /\ next_priority' = next_priority
    /\ next_stream_id' = next_id
    /\ IF ps_can_insert(rxs, id)
       THEN /\ rxs' = ps_insert(rxs, id, next_priority)
            /\ panicked' = panicked
            /\ last' = Call(op, id, "none", NoEnt, "Ok")
            /\ hist' = hist_set(hist, id, NewHist)
       ELSE /\ rxs' = rxs
            /\ panicked' = "Unexpected rx entry for unused StreamId"
            /\ last' = Call(op, id, "none", NoEnt, "panic")
            /\ hist' = hist

\* insert_open with the enrolment of the source in rxs left out
insert_open_skip_rx(op, id, send_window, next_id) ==
    /\ m' = cm_insert(m, id, OpenEnt(send_window))
    /\ next_priority' = next_priority + 1
    /\ next_stream_id' = next_id
    /\ rxs' = rxs
    /\ panicked' = panicked
    /\ last' = Call(op, id, "none", NoEnt, "Ok")
    /\ hist' = hist_set(hist, id, NewHist)

\* The part shared by add_ent and add_ent_with_id once a vacant id is found:
\* insert the Open entry, take a priority, try_insert(..).expect(..).
insert_open(op, id, send_window, next_id) ==
    /\ m' = cm_insert(m, id, OpenEnt(send_window))
    /\ next_priority' = next_priority + 1
    /\ next_stream_id' = next_id
    /\ IF ps_can_insert(rxs, id)
       THEN /\ rxs' = ps_insert(rxs, id, next_priority)
            /\ panicked' = panicked
            /\ last' = Call(op, id, "none", NoEnt, "Ok")
            /\ hist' = hist_set(hist, id, NewHist)
       ELSE /\ rxs' = rxs
            /\ panicked' = "Unexpected rx entry for unused StreamId"
            /\ last' = Call(op, id, "none", NoEnt, "panic")
            /\ hist' = hist

\* StreamMap::add_ent
add_ent(send_window) ==
    /\ Running
    /\ UNCHANGED others
    /\ LET id == probe(m, next_stream_id, PROBE_LIMIT) IN
       IF id # 0
       THEN insert_open("add_ent", id, send_window, wrapping_next_stream_id(id))
       ELSE /\ next_stream_id' = advance(next_stream_id, PROBE_LIMIT)
            /\ last' = Call("add_ent", 0, "none", NoEnt, "IdRangeFull")
            /\ UNCHANGED <<m, rxs, next_priority, panicked, hist>>

\* StreamMap::add_ent_with_id
add_ent_with_id(send_window, id) ==
    /\ Running
    /\ UNCHANGED others
    /\ IF id \notin DOMAIN m.map
       THEN insert_open("add_ent_with_id", id, send_window, next_stream_id)
       ELSE /\ last' = Call("add_ent_with_id", id, "none", cm_get(m, id), "IdUnavailable")
            /\ UNCHANGED <<m, rxs, next_stream_id, next_priority, panicked, hist>>

\* ending_msg_received, the result: Err for a vacant or an EndReceived entry
ending_msg_received_ret(stream_entry) ==
    CASE stream_entry.tag = "None"        -> "CircProto"
      [] stream_entry.tag = "EndReceived" -> "CircProto"
      [] stream_entry.tag = "EndSent"     -> "Ok"
      [] stream_entry.tag = "Open"        -> "Ok"

\* ending_msg_received_map writing EndReceived through get_mut_unchecked
ending_msg_received_map_unchecked(cm, id) ==
    CASE cm_get(cm, id).tag = "None"        -> cm
      [] cm_get(cm, id).tag = "EndReceived" -> cm
      [] cm_get(cm, id).tag = "EndSent"     -> cm_remove(cm, id)
      [] cm_get(cm, id).tag = "Open"        -> cm_set_unchecked(cm, id, EndReceivedEnt)

\* ending_msg_received_map keeping the EndSent entry when the END arrives
ending_msg_received_map_keep(cm, id) ==
    CASE cm_get(cm, id).tag = "None"        -> cm
      [] cm_get(cm, id).tag = "EndReceived" -> cm
      [] cm_get(cm, id).tag = "EndSent"     -> cm
      [] cm_get(cm, id).tag = "Open"        -> cm_insert(cm, id, EndReceivedEnt)

\* ending_msg_received_map forgetting the stream on a second END
ending_msg_received_map_clean(cm, id) ==
    CASE cm_get(cm, id).tag = "None"        -> cm
      [] cm_get(cm, id).tag = "EndReceived" -> cm_remove(cm, id)
      [] cm_get(cm, id).tag = "EndSent"     -> cm_remove(cm, id)
      [] cm_get(cm, id).tag = "Open"        -> cm_insert(cm, id, EndReceivedEnt)

\* ending_msg_received, the map it leaves
ending_msg_received_map(cm, id) ==
    CASE cm_get(cm, id).tag = "None"        -> cm
      [] cm_get(cm, id).tag = "EndReceived" -> cm
      [] cm_get(cm, id).tag = "EndSent"     -> cm_remove(cm, id)
      [] cm_get(cm, id).tag = "Open"        -> cm_insert(cm, id, EndReceivedEnt)

\* StreamMap::ending_msg_received
ending_msg_received(id) ==
    /\ Running
    /\ UNCHANGED others
    /\ LET stream_entry == cm_get(m, id)
           ret == ending_msg_received_ret(stream_entry)
       IN
       /\ m' = ending_msg_received_map(m, id)
       /\ last' = Call("ending_msg_received", id, "none", stream_entry, ret)
       /\ hist' = IF ret = "Ok" /\ id \in DOMAIN hist
                  THEN hist_prune([hist EXCEPT ![id].ended = TRUE], m'.map)
                  ELSE hist
    /\ UNCHANGED <<rxs, next_stream_id, next_priority, panicked>>

\* StreamRecvWindow::new(window).decrement_n(n): the window left, or -1 for Err
decrement_n(window, n) == IF n > window THEN -1 ELSE window - n

\* explicitly_dropped_for with the two reasons exchanged
explicitly_dropped_for_flipped(why) == why = "ExplicitEnd"

\* `let explicitly_dropped = why == TR::StreamTargetClosed;`
explicitly_dropped_for(why) == why = "StreamTargetClosed"

\* terminate_ret asking for an END on a stream whose END was already received
terminate_ret_resend(removed, why) ==
    CASE removed.tag = "None"        -> "Internal"
      [] removed.tag = "EndReceived" -> "Send"
      [] removed.tag = "Open" ->
           IF decrement_n(RECV_WINDOW_INIT, removed.dropped) < 0
           THEN "CircProto" ELSE "Send"
      [] removed.tag = "EndSent" ->
           CASE ~removed.explicitly_dropped /\ why = "StreamTargetClosed" -> "DontSend"
             [] removed.explicitly_dropped /\ why = "StreamTargetClosed"  -> "BadApiUsage"
             [] why = "ExplicitEnd"                                       -> "BadApiUsage"

\* terminate_ret accepting a second close of a stream already closed
terminate_ret_lenient(removed, why) ==
    CASE removed.tag = "None"        -> "Internal"
      [] removed.tag = "EndReceived" -> "DontSend"
      [] removed.tag = "Open" ->
           IF decrement_n(RECV_WINDOW_INIT, removed.dropped) < 0
           THEN "CircProto" ELSE "Send"
      [] removed.tag = "EndSent" ->
           CASE why = "StreamTargetClosed" -> "DontSend"
             [] why = "ExplicitEnd"        -> "BadApiUsage"

\* terminate, the result of the match on the entry that `remove` returned
terminate_ret(removed, why) ==
    CASE removed.tag = "None"        -> "Internal"
      [] removed.tag = "EndReceived" -> "DontSend"
      [] removed.tag = "Open" ->
           \* `recv_window.decrement_n(dropped)?`
           IF decrement_n(RECV_WINDOW_INIT, removed.dropped) < 0
           THEN "CircProto" ELSE "Send"
      [] removed.tag = "EndSent" ->
           CASE ~removed.explicitly_dropped /\ why = "StreamTargetClosed" -> "DontSend"
             [] removed.explicitly_dropped /\ why = "StreamTargetClosed"  -> "BadApiUsage"
             [] why = "ExplicitEnd"                                       -> "BadApiUsage"

\* terminate building the half-stream with an undebited receive window
terminate_map_fresh_window(cm, id, why) ==
    LET removed == cm_get(cm, id)
        recv_window == decrement_n(RECV_WINDOW_INIT, removed.dropped)
    IN  IF removed.tag = "Open" /\ recv_window >= 0
        THEN cm_insert(cm_remove(cm, id), id,
                       EndSentEnt(removed.send_window, RECV_WINDOW_INIT,
                                  explicitly_dropped_for(why)))
        ELSE cm_remove(cm, id)

\* terminate, the map it leaves: the entry is taken out by `remove`, and only
\* the Open arm inserts an entry again
terminate_map(cm, id, why) ==
    LET removed == cm_get(cm, id)
        recv_window == decrement_n(RECV_WINDOW_INIT, removed.dropped)
    IN  IF removed.tag = "Open" /\ recv_window >= 0
        THEN cm_insert(cm_remove(cm, id), id,
                       EndSentEnt(removed.send_window, recv_window,
                                  explicitly_dropped_for(why)))
        ELSE cm_remove(cm, id)

\* StreamMap::terminate
terminate(id, why) ==
    /\ Running
    /\ UNCHANGED others
    /\ LET removed == cm_get(m, id)
           ret == terminate_ret(removed, why)
           \* `self.rxs.remove(&id).expect("Missing receiver")`, in the Open arm
           missing == removed.tag = "Open" /\ ret = "Send" /\ id \notin DOMAIN rxs
       IN
       /\ m' = terminate_map(m, id, why)
       /\ rxs' = IF removed.tag = "Open" /\ ret = "Send" THEN ps_remove(rxs, id) ELSE rxs
       /\ panicked' = IF missing THEN "Missing receiver" ELSE panicked
       /\ last' = Call("terminate", id, why, removed, IF missing THEN "panic" ELSE ret)
       /\ hist' = IF id \notin DOMAIN hist \/ missing THEN hist
                  ELSE IF ret = "Send" THEN [hist EXCEPT ![id].sends = @ + 1]
                  ELSE hist_prune(hist, m'.map)
    /\ UNCHANGED <<next_stream_id, next_priority>>

\* StreamMap::poll_ready_streams_iter, drained by the caller
poll_ready_streams_iter ==
    /\ Running
    /\ UNCHANGED others
    /\ LET ready == ps_poll_ready_iter(rxs)
           bad == {i \in 1..Len(ready) : ~IsOpen(cm_get(m, ready[i]))}
           stop == IF bad = {} THEN Len(ready)
                   ELSE (CHOOSE i \in bad : \A j \in bad : i <= j) - 1
       IN
       /\ panicked' = IF bad = {} THEN panicked ELSE "Missing open stream"
       /\ last' = [Call("poll_ready_streams_iter", 0, "none", NoEnt,
                        IF bad = {} THEN "Ok" ELSE "panic")
                   EXCEPT !.yielded = SubSeq(ready, 1, stop)]
    /\ UNCHANGED <<m, rxs, next_stream_id, next_priority, hist>>

\* The open streams other than sid that have a message waiting.
Waiting(sid) ==
    {t \in DOMAIN rxs \ {sid} : Len(rxs[t].pending) > 0 /\ IsOpen(cm_get(m, t))}

\* take_ready_msg sending the stream to the front of the line
take_ready_msg_front(sid) ==
    /\ Running
    /\ UNCHANGED others
    /\ next_priority' = next_priority + 1
    /\ IF ps_can_take(rxs, sid)
       THEN /\ rxs' = ps_take(rxs, sid, 0)
            /\ last' = [Call("take_ready_msg", sid, "none", cm_get(m, sid), "Some")
                        EXCEPT !.val = Head(rxs[sid].pending)]
            /\ hist' = hist_took(hist, sid, Waiting(sid))
       ELSE /\ rxs' = rxs
            /\ last' = Call("take_ready_msg", sid, "none", cm_get(m, sid), "None")
            /\ hist' = hist
    /\ UNCHANGED <<m, next_stream_id, panicked>>

\* take_ready_msg leaving the stream at the priority it had
take_ready_msg_same_priority(sid) ==
    /\ Running
    /\ UNCHANGED others
    /\ next_priority' = next_priority + 1
    /\ IF ps_can_take(rxs, sid)
       THEN /\ rxs' = ps_take(rxs, sid, rxs[sid].priority)
            /\ last' = [Call("take_ready_msg", sid, "none", cm_get(m, sid), "Some")
                        EXCEPT !.val = Head(rxs[sid].pending)]
            /\ hist' = hist_took(hist, sid, Waiting(sid))
       ELSE /\ rxs' = rxs
            /\ last' = Call("take_ready_msg", sid, "none", cm_get(m, sid), "None")
            /\ hist' = hist
    /\ UNCHANGED <<m, next_stream_id, panicked>>

\* take_ready_msg returning the message that is ready without consuming it
take_ready_msg_peek(sid) ==
    /\ Running
    /\ UNCHANGED others
    /\ next_priority' = next_priority + 1
    /\ IF ps_can_take(rxs, sid)
       THEN /\ rxs' = [rxs EXCEPT ![sid].priority = next_priority]
            /\ last' = [Call("take_ready_msg", sid, "none", cm_get(m, sid), "Some")
                        EXCEPT !.val = Head(rxs[sid].pending)]
            /\ hist' = hist_took(hist, sid, Waiting(sid))
       ELSE /\ rxs' = rxs
            /\ last' = Call("take_ready_msg", sid, "none", cm_get(m, sid), "None")
            /\ hist' = hist
    /\ UNCHANGED <<m, next_stream_id, panicked>>

\* StreamMap::take_ready_msg
take_ready_msg(sid) ==
    /\ Running
    /\ UNCHANGED others
    /\ next_priority' = next_priority + 1
    /\ IF ps_can_take(rxs, sid)
       THEN /\ rxs' = ps_take(rxs, sid, next_priority)
            /\ last' = [Call("take_ready_msg", sid, "none", cm_get(m, sid), "Some")
                        EXCEPT !.val = Head(rxs[sid].pending)]
            /\ hist' = hist_took(hist, sid, Waiting(sid))
       ELSE /\ rxs' = rxs
            /\ last' = Call("take_ready_msg", sid, "none", cm_get(m, sid), "None")
            /\ hist' = hist
    /\ UNCHANGED <<m, next_stream_id, panicked>>

(* ---------------------- the users of the map --------------------------- *)

\* The reactor, through get_mut(id): `*dropped += n` on an open entry.
bump_dropped(id, n) ==
    /\ Running
    /\ UNCHANGED others
    /\ IsOpen(get_mut(id))
    /\ get_mut(id).dropped + n <= MaxDropped
    /\ m' = cm_set_unchecked(m, id, [get_mut(id) EXCEPT !.dropped = @ + n])
    /\ last' = Env
    /\ UNCHANGED <<rxs, next_stream_id, next_priority, panicked, hist>>

\* The stream's owner queues a message on the sending half of the channel.
send_msg(id, msg) ==
    /\ Running
    /\ UNCHANGED others
    /\ id \in DOMAIN rxs
    /\ ~rxs[id].closed
    /\ rxs' = [rxs EXCEPT ![id].pending = Append(@, msg)]
    /\ last' = Env
    /\ UNCHANGED <<m, next_stream_id, next_priority, panicked, hist>>

\* The stream's owner drops every sending half of the channel.
drop_sender(id) ==
    /\ Running
    /\ UNCHANGED others
    /\ id \in DOMAIN rxs
    /\ ~rxs[id].closed
    /\ rxs' = [rxs EXCEPT ![id].closed = TRUE]
    /\ last' = Env
    /\ UNCHANGED <<m, next_stream_id, next_priority, panicked, hist>>

\* The exploration stops handing out priorities at cap, and queues no more
\* messages than the priorities left can take.
PriorityLeft(cap) == next_priority < cap
MsgLeft(cap) == next_priority + Queued(rxs) < cap

Next ==
    \/ \E sw \in SendWindows : PriorityLeft(MaxPriority) /\ add_ent(sw)
    \/ \E sw \in SendWindows, id \in WithIds :
          PriorityLeft(MaxPriority) /\ add_ent_with_id(sw, id)
    \/ \E id \in OpIds : ending_msg_received(id)
    \/ \E id \in OpIds, why \in TerminateReason : terminate(id, why)
    \/ poll_ready_streams_iter
    \/ \E sid \in OpIds : PriorityLeft(MaxPriority) /\ take_ready_msg(sid)
    \/ \E id \in OpIds, n \in DroppedSteps : bump_dropped(id, n)
    \/ \E id \in OpIds, msg \in Msgs : MsgLeft(MaxPriority) /\ send_msg(id, msg)
    \/ \E id \in OpIds : drop_sender(id)

Spec == Init /\ [][Next]_vars

(* ------------------ the scheduling of the ready streams ---------------- *)

\* Cap on next_priority in the scheduling runs.
SchedMaxPriority == 6
\* Streams the scheduling runs keep in rxs at a time: half of the priorities
\* go to adding streams, the other half to taking messages from them.
SchedMaxStreams == SchedMaxPriority \div 2
\* Outbound messages of the scheduling runs, told apart by their kind.
SchedMsgs == {"DATA", "SENDME"}

StreamLeft(cap) == Cardinality(DOMAIN rxs) < cap

\* The reactor adds streams, their owners queue messages or go away, and the
\* reactor polls the ready streams and takes messages in any order it likes.
NextSched ==
    \/ \E sw \in SendWindows :
          /\ StreamLeft(SchedMaxStreams)
          /\ PriorityLeft(SchedMaxPriority)
          /\ add_ent(sw)
    \/ \E id \in DOMAIN rxs, msg \in SchedMsgs :
          MsgLeft(SchedMaxPriority) /\ send_msg(id, msg)
    \/ \E id \in DOMAIN rxs : drop_sender(id)
    \/ poll_ready_streams_iter
    \/ \E sid \in DOMAIN rxs : PriorityLeft(SchedMaxPriority) /\ take_ready_msg(sid)

SpecSched == Init /\ [][NextSched]_vars

(* ------------------- the allocation of stream ids ---------------------- *)

\* Cap on next_priority in the allocation runs: each stream added takes one.
AllocMaxPriority == 3
\* Values StreamMap::new draws for next_stream_id in the allocation runs: the
\* smallest id and the two largest.
AllocInitIds == {1, STREAM_ID_MAX - 1, STREAM_ID_MAX}
\* Ids passed to add_ent_with_id in the allocation runs.
AllocWithIds == {1, 2}

InitAlloc ==
    /\ m = cm_new
    /\ rxs = << >>
    /\ next_stream_id \in AllocInitIds
    /\ next_priority = 0
    /\ panicked = "none"
    /\ last = Call("new", 0, "none", NoEnt, "Ok")
    /\ hist = << >>
    /\ tracker = NoTracker
    /\ challenge = NoChallenge
    /\ IdleUtils

\* Streams are added with and without a given id, ended by the peer and
\* closed by the reactor.
NextAlloc ==
    \/ \E sw \in SendWindows : PriorityLeft(AllocMaxPriority) /\ add_ent(sw)
    \/ \E sw \in SendWindows, id \in AllocWithIds :
          PriorityLeft(AllocMaxPriority) /\ add_ent_with_id(sw, id)
    \/ \E id \in DOMAIN m.map \cup DOMAIN rxs : ending_msg_received(id)
    \/ \E id \in DOMAIN m.map \cup DOMAIN rxs, why \in TerminateReason :
          terminate(id, why)

SpecAlloc == InitAlloc /\ [][NextAlloc]_vars

(* ------------------------ wrapping_next_stream_id ---------------------- *)

\* Every StreamId: the values of a NonZeroU16.
StreamIds == 1..STREAM_ID_MAX

InitWrap ==
    /\ m = cm_new
    /\ rxs = << >>
    /\ next_stream_id \in StreamIds
    /\ next_priority = 0
    /\ panicked = "none"
    /\ last = Call("new", 0, "none", NoEnt, "Ok")
    /\ hist = << >>
    /\ tracker = NoTracker
    /\ challenge = NoChallenge
    /\ IdleUtils

\* `self.next_stream_id = wrapping_next_stream_id(self.next_stream_id)`, once
\* on the id the map was created with.
step_next_stream_id ==
    /\ last.op = "new"
    /\ UNCHANGED others
    /\ next_stream_id' = wrapping_next_stream_id(next_stream_id)
    /\ last' = Call("wrapping_next_stream_id", next_stream_id, "none", NoEnt, "Ok")
    /\ UNCHANGED <<m, rxs, next_priority, panicked, hist>>

SpecWrap == InitWrap /\ [][step_next_stream_id]_vars

(* ------------- a reactor that serves the first ready stream ------------ *)

\* Cap on next_priority in the runs of this reactor, and the streams it keeps.
ReactorMaxPriority == SchedMaxPriority - 1
ReactorMaxStreams == ReactorMaxPriority \div 2

\* The streams poll_ready_streams_iter would go through, in its order.
ReadyStreams == ps_poll_ready_iter(rxs)

\* The reactor takes the message of the first stream the iteration yields.
reactor_take ==
    /\ ReadyStreams # << >>
    /\ IsOpen(cm_get(m, ReadyStreams[1]))
    /\ ps_can_take(rxs, ReadyStreams[1])
    /\ take_ready_msg(ReadyStreams[1])

\* The first stream yielded has no message: its owner is gone, and the
\* reactor closes it.
reactor_close ==
    /\ ReadyStreams # << >>
    /\ IsOpen(cm_get(m, ReadyStreams[1]))
    /\ ~ps_can_take(rxs, ReadyStreams[1])
    /\ terminate(ReadyStreams[1], "StreamTargetClosed")

\* Streams come and go, their owners queue messages, the peer ends streams;
\* the reactor polls and always serves the first stream yielded.
NextReactor ==
    \/ \E sw \in SendWindows :
          /\ StreamLeft(ReactorMaxStreams)
          /\ PriorityLeft(ReactorMaxPriority)
          /\ add_ent(sw)
    \/ \E id \in DOMAIN rxs, msg \in Msgs :
          MsgLeft(ReactorMaxPriority) /\ send_msg(id, msg)
    \/ \E id \in DOMAIN rxs : drop_sender(id)
    \/ \E id \in DOMAIN rxs : ending_msg_received(id)
    \/ poll_ready_streams_iter
    \/ PriorityLeft(ReactorMaxPriority) /\ reactor_take
    \/ reactor_close

SpecReactor == Init /\ [][NextReactor]_vars

(* --------------------- the half-streams of terminate ------------------- *)

\* Send windows of the streams added in the half-stream runs.
HalfSendWindows == {499, RECV_WINDOW_INIT}
\* Amounts by which the reactor raises `dropped` in the half-stream runs.
HalfDroppedSteps == {RECV_WINDOW_INIT \div 2, RECV_WINDOW_INIT}

\* Streams are added with different send windows, drop messages, are ended
\* by the peer and closed by the reactor.
NextHalf ==
    \/ \E sw \in HalfSendWindows : PriorityLeft(MaxPriority) /\ add_ent(sw)
    \/ \E id \in DOMAIN m.map, n \in HalfDroppedSteps : bump_dropped(id, n)
    \/ \E id \in DOMAIN m.map \cup DOMAIN rxs : ending_msg_received(id)
    \/ \E id \in DOMAIN m.map \cup DOMAIN rxs, why \in TerminateReason :
          terminate(id, why)

SpecHalf == Init /\ [][NextHalf]_vars

(* ------------- timeout trackers (tor-hsservice timeout_track.rs) ------- *)

\* Instants, system times and durations are whole numbers of time units.
\* The latest time a tracker is compared with.
MaxTime == 3
\* The number of different comparisons and updates made on one tracker.
MaxCompares == 3

Times == 0..MaxTime
\* The time at which the trackers are constructed, on either clock: there are
\* times before it and after it.
TrackerNows == {1}
\* Offsets passed to checked_sub.
Offsets == 0..(MaxTime - 1)

\* Option<T>
None == << >>
Some(x) == <<x>>

\* Ord::cmp on times and durations
ord_cmp(a, b) == IF a < b THEN "Less" ELSE IF a = b THEN "Equal" ELSE "Greater"

\* Ordering::reverse
reverse(o) == IF o = "Less" THEN "Greater" ELSE IF o = "Greater" THEN "Less" ELSE o

\* update_inner keeping the latest deadline instead of the earliest
update_inner_overwrite(earliest, maybe_earlier) == Some(maybe_earlier)

\* update_inner: earliest.set(chain!(earliest.take(), [maybe_earlier]).min())
update_inner(earliest, maybe_earlier) ==
    IF earliest = None THEN Some(maybe_earlier)
    ELSE IF maybe_earlier < earliest[1] THEN Some(maybe_earlier) ELSE earliest

\* Instant::checked_duration_since
checked_duration_since(t, earlier) == IF t < earlier THEN None ELSE Some(t - earlier)

\* Instant::checked_sub(Duration)
instant_checked_sub(now, offset) == IF offset > now THEN None ELSE Some(now - offset)

\* instant_cmp leaving the cell alone when t is before the threshold
instant_cmp_skip_past(earliest, threshold, t) ==
    LET d == checked_duration_since(t, threshold) IN
    IF d = None
    THEN [earliest |-> earliest, ord |-> "Less"]
    ELSE [earliest |-> update_inner(earliest, d[1]), ord |-> ord_cmp(d[1], 0)]

\* fn instant_cmp(earliest, threshold, t): the cell afterwards and the result
instant_cmp(earliest, threshold, t) ==
    LET d == checked_duration_since(t, threshold) IN
    IF d = None
    THEN [earliest |-> Some(0), ord |-> "Less"]
    ELSE [earliest |-> update_inner(earliest, d[1]), ord |-> ord_cmp(d[1], 0)]

\* TrackingSystemTimeNow::cmp: the cell afterwards and the result
system_time_cmp(now, earliest, t) ==
    [earliest |-> update_inner(earliest, t), ord |-> ord_cmp(now, t)]

\* define_PartialOrd_via_cmp: `tracker == t`, tracker.partial_cmp(t) and
\* t.partial_cmp(tracker), from what the tracker's cmp(t) returned
PartialEq_eq(ord) == ord = "Equal"
PartialOrd_partial_cmp(ord) == Some(ord)
PartialOrd_partial_cmp_reversed(ord) == Some(reverse(ord))

\* The record of the last operation on a tracker: its name, the tracker or
\* view it was made on, the time that tracker stands for, the time passed,
\* the Ordering returned by cmp, and the Option returned otherwise.
TrackerOp(name, on, now, t, ord, ret) ==
    [name |-> name, on |-> on, now |-> now, t |-> t, ord |-> ord, ret |-> ret]

\* TrackingNow::new(instant, system_time): a TrackingInstantNow and a
\* TrackingSystemTimeNow, each with an empty earliest cell.  `views` are the
\* thresholds of the offset views alive; `asked_instant` and `asked_system`
\* remember what the trackers and views were compared with.
TrackingNow_new(instant, system_time) ==
    [phase |-> "tracking",
     instant_now |-> instant, instant_earliest |-> None,
     system_now |-> system_time, system_earliest |-> None,
     views |-> {}, asked_instant |-> {}, asked_system |-> {},
     op |-> TrackerOp("new", "none", 0, 0, "none", None),
     waiting_on |-> "none", started |-> 0, clock |-> 0]

Tracking == tracker.phase = "tracking"

\* TrackingInstantNow::cmp
TrackingInstantNow_cmp(t) ==
    /\ Tracking
    /\ LET r == instant_cmp(tracker.instant_earliest, tracker.instant_now, t) IN
       tracker' = [tracker EXCEPT
                     !.instant_earliest = r.earliest,
                     !.asked_instant = @ \cup {<<tracker.instant_now, t>>},
                     !.op = TrackerOp("cmp", "instant", tracker.instant_now, t, r.ord, None)]
    /\ UNCHANGED <<mapvars, challenge, utils>>

\* TrackingInstantOffsetNow::cmp, on the view with the given threshold
TrackingInstantOffsetNow_cmp(threshold, t) ==
    /\ Tracking
    /\ threshold \in tracker.views
    /\ LET r == instant_cmp(tracker.instant_earliest, threshold, t) IN
       tracker' = [tracker EXCEPT
                     !.instant_earliest = r.earliest,
                     !.asked_instant = @ \cup {<<threshold, t>>},
                     !.op = TrackerOp("cmp", "offset", threshold, t, r.ord, None)]
    /\ UNCHANGED <<mapvars, challenge, utils>>

\* TrackingSystemTimeNow::cmp
TrackingSystemTimeNow_cmp(t) ==
    /\ Tracking
    /\ LET r == system_time_cmp(tracker.system_now, tracker.system_earliest, t) IN
       tracker' = [tracker EXCEPT
                     !.system_earliest = r.earliest,
                     !.asked_system = @ \cup {t},
                     !.op = TrackerOp("cmp", "system_time", tracker.system_now, t, r.ord, None)]
    /\ UNCHANGED <<mapvars, challenge, utils>>

\* TrackingSystemTimeNow::update
TrackingSystemTimeNow_update(t) ==
    /\ Tracking
    /\ tracker' = [tracker EXCEPT
                     !.system_earliest = update_inner(@, t),
                     !.asked_system = @ \cup {t},
                     !.op = TrackerOp("update", "system_time", tracker.system_now, t, "none", None)]
    /\ UNCHANGED <<mapvars, challenge, utils>>

\* TrackingInstantNow::update_abs, through update_rel
TrackingInstantNow_update_abs(t) ==
    /\ Tracking
    /\ LET d == checked_duration_since(t, tracker.instant_now)
           unwrap_or_default == IF d = None THEN 0 ELSE d[1]
       IN
       tracker' = [tracker EXCEPT
                     !.instant_earliest = update_inner(@, unwrap_or_default),
                     !.asked_instant = @ \cup {<<tracker.instant_now, t>>},
                     !.op = TrackerOp("update", "instant", tracker.instant_now, t, "none", None)]
    /\ UNCHANGED <<mapvars, challenge, utils>>

\* TrackingInstantNow::checked_sub and TrackingNow::checked_sub
checked_sub(offset) ==
    /\ Tracking
    /\ LET threshold == instant_checked_sub(tracker.instant_now, offset) IN
       tracker' = [tracker EXCEPT
                     !.views = IF threshold = None THEN @ ELSE @ \cup {threshold[1]},
                     !.op = TrackerOp("checked_sub", "instant", tracker.instant_now,
                                      offset, "none", threshold)]
    /\ UNCHANGED <<mapvars, challenge, utils>>

\* TrackingSystemTimeNow::earliest: consumes the tracker
earliest ==
    /\ Tracking
    /\ tracker' = [tracker EXCEPT
                     !.phase = "consumed", !.views = {},
                     !.op = TrackerOp("earliest", "system_time", tracker.system_now, 0,
                                      "none", tracker.system_earliest)]
    /\ UNCHANGED <<mapvars, challenge, utils>>

\* TrackingInstantNow::shortest: consumes the tracker
shortest ==
    /\ Tracking
    /\ tracker' = [tracker EXCEPT
                     !.phase = "consumed", !.views = {},
                     !.op = TrackerOp("shortest", "instant", tracker.instant_now, 0,
                                      "none", tracker.instant_earliest)]
    /\ UNCHANGED <<mapvars, challenge, utils>>

\* The stream map nobody uses: StreamMap::new and nothing else.
IdleStreamMap ==
    /\ m = cm_new
    /\ rxs = << >>
    /\ next_stream_id = STREAM_ID_MAX
    /\ next_priority = 0
    /\ panicked = "none"
    /\ last = Call("new", 0, "none", NoEnt, "Ok")
    /\ hist = << >>

InitTrack ==
    /\ IdleStreamMap
    /\ challenge = NoChallenge
    /\ IdleUtils
    /\ \E i \in TrackerNows, w \in TrackerNows : tracker = TrackingNow_new(i, w)

\* A further comparison or update may be made.
CompareLeft ==
    Cardinality(tracker.asked_instant) + Cardinality(tracker.asked_system) < MaxCompares

NextTrack ==
    \/ \E t \in Times : CompareLeft /\ TrackingInstantNow_cmp(t)
    \/ \E threshold \in Times, t \in Times :
          CompareLeft /\ TrackingInstantOffsetNow_cmp(threshold, t)
    \/ \E t \in Times : CompareLeft /\ TrackingSystemTimeNow_cmp(t)
    \/ \E t \in Times : CompareLeft /\ TrackingSystemTimeNow_update(t)
    \/ \E t \in Times : CompareLeft /\ TrackingInstantNow_update_abs(t)
    \/ \E offset \in Offsets : checked_sub(offset)
    \/ earliest
    \/ shortest

SpecTrack == InitTrack /\ [][NextTrack]_vars

(* ------------------------- wait_for_earliest --------------------------- *)

\* The time that may pass between the construction of a tracker and the call
\* of wait_for_earliest.
WaitDelays == {0, 1}
\* The kinds of tracker to wait on: the two single trackers, or TrackingNow.
WaitKinds == {"instant", "system_time", "combined"}

\* SleepProvider::sleep(duration), begun `started` after the tracker's now:
\* ready once the duration has passed since then.
sleep_ready(started, clock, duration) == clock - started >= duration

\* SleepProviderExt::sleep_until_wallclock(when): ready once the wall clock,
\* which read `now` at the tracker's construction, shows `when` or later.
sleep_until_wallclock_ready(now, clock, when) == now + clock >= when

\* the single tracker's wait with `None => return` instead of pending
single_wait_ready_none_returns(tk, kind) ==
    IF kind = "instant"
    THEN tk.instant_earliest = None
           \/ sleep_ready(tk.started, tk.clock, tk.instant_earliest[1])
    ELSE tk.system_earliest = None
           \/ sleep_until_wallclock_ready(tk.system_now, tk.clock, tk.system_earliest[1])

\* wait_for_earliest of a tracker for a single kind of time:
\* None => future::pending(), Some(earliest) => runtime.sleep...(earliest)
single_wait_ready(tk, kind) ==
    IF kind = "instant"
    THEN /\ tk.instant_earliest # None
         /\ sleep_ready(tk.started, tk.clock, tk.instant_earliest[1])
    ELSE /\ tk.system_earliest # None
         /\ sleep_until_wallclock_ready(tk.system_now, tk.clock, tk.system_earliest[1])

\* the combined wait joining the two waits instead of selecting between them
wait_ready_join(tk) ==
    IF tk.waiting_on = "combined"
    THEN single_wait_ready(tk, "instant") /\ single_wait_ready(tk, "system_time")
    ELSE single_wait_ready(tk, tk.waiting_on)

\* wait_for_earliest has something to return with: for the combined tracker,
\* select_biased! over the waits of its two fields
wait_ready(tk) ==
    IF tk.waiting_on = "combined"
    THEN single_wait_ready(tk, "instant") \/ single_wait_ready(tk, "system_time")
    ELSE single_wait_ready(tk, tk.waiting_on)

\* wait_for_earliest(self, runtime) is called, `delay` after the tracker was
\* constructed; it consumes the tracker.
wait_for_earliest(kind, delay) ==
    /\ Tracking
    /\ tracker' = [tracker EXCEPT
                     !.phase = "waiting", !.views = {},
                     !.waiting_on = kind, !.started = delay, !.clock = delay,
                     !.op = TrackerOp("wait_for_earliest", kind, 0, 0, "none", None)]
    /\ UNCHANGED <<mapvars, challenge, utils>>

\* Time passes while the future is pending; it does not pass a moment at
\* which the future is ready without the future completing.
tick ==
    /\ tracker.phase = "waiting"
    /\ ~wait_ready(tracker)
    /\ tracker.clock < MaxTime + 2
    /\ tracker' = [tracker EXCEPT !.clock = @ + 1]
    /\ UNCHANGED <<mapvars, challenge, utils>>

\* The future returned by wait_for_earliest completes.
wake ==
    /\ tracker.phase = "waiting"
    /\ wait_ready(tracker)
    /\ tracker' = [tracker EXCEPT !.phase = "done"]
    /\ UNCHANGED <<mapvars, challenge, utils>>

\* A tracker after at most one comparison on each clock.
TrackerCompared(i, w, ti, tw) ==
    LET fresh == TrackingNow_new(i, w)
        one == IF ti = None THEN fresh
               ELSE [fresh EXCEPT
                       !.instant_earliest = instant_cmp(None, i, ti[1]).earliest,
                       !.asked_instant = {<<i, ti[1]>>}]
    IN  IF tw = None THEN one
        ELSE [one EXCEPT
                !.system_earliest = system_time_cmp(w, None, tw[1]).earliest,
                !.asked_system = {tw[1]}]

OptionalTimes == {None} \cup {Some(t) : t \in Times}

InitWait ==
    /\ IdleStreamMap
    /\ challenge = NoChallenge
    /\ IdleUtils
    /\ \E i \in TrackerNows, w \in TrackerNows, ti \in OptionalTimes, tw \in OptionalTimes :
          tracker = TrackerCompared(i, w, ti, tw)

NextWait ==
    \/ \E kind \in WaitKinds, delay \in WaitDelays : wait_for_earliest(kind, delay)
    \/ tick
    \/ wake

\* Time goes on, and the runtime wakes a future whose sleep is over.
SpecWait == InitWait /\ [][NextWait]_vars /\ WF_vars(tick) /\ WF_vars(wake)

(* ------------- proof-of-work challenge (tor-hspow v1/challenge.rs) ----- *)

\* The number of increment_nonce calls on one challenge.
MaxIncrements == 3

\* A byte string is a sequence of numbers in 0..255.  A u32 is a pair
\* <<high, low>> of 16-bit halves, standing for high * 2^16 + low.
Bytes(n, b) == [i \in 1..n |-> b]
U32(high, low) == <<high, low>>

\* b"Tor hs intro v1\0"
P_STRING == <<84, 111, 114, 32, 104, 115, 32, 105, 110, 116, 114, 111, 32, 118, 49, 0>>
P_STRING_LEN == 16
ID_LEN == 32
\* crate::v1::SEED_LEN and NONCE_LEN
SEED_LEN == 32
NONCE_LEN == 16
SEED_OFFSET == P_STRING_LEN + ID_LEN
NONCE_OFFSET == SEED_OFFSET + SEED_LEN
EFFORT_OFFSET == NONCE_OFFSET + NONCE_LEN
EFFORT_LEN == 4
CHALLENGE_LEN == EFFORT_OFFSET + EFFORT_LEN

\* u32::to_be_bytes
to_be_bytes(u) == <<u[1] \div 256, u[1] % 256, u[2] \div 256, u[2] % 256>>

\* u32::from_le_bytes
from_le_bytes(b) == U32(b[4] * 256 + b[3], b[2] * 256 + b[1])

\* u32::from_be_bytes
from_be_bytes(b) == U32(b[1] * 256 + b[2], b[3] * 256 + b[4])

\* self.0[offset..(offset + len)]
Slice(bytes, offset, len) == SubSeq(bytes, offset + 1, offset + len)

\* Challenge::new laying the seed before the service identity
Challenge_new_seed_first(instance, effort, nonce) ==
    LET result == P_STRING \o instance.seed \o instance.service \o nonce
                      \o to_be_bytes(effort)
    IN  [bytes |-> result, panic |-> Len(result) # CHALLENGE_LEN]

\* Challenge::new: the bytes, and whether an assert_eq! or the final expect
\* (or the capacity of the ArrayVec) made it panic
Challenge_new(instance, effort, nonce) ==
    LET one == P_STRING \o instance.service
        two == one \o instance.seed
        three == two \o nonce
        result == three \o to_be_bytes(effort)
    IN  [bytes |-> result,
         panic |-> \/ Len(one) # SEED_OFFSET
                   \/ Len(two) # NONCE_OFFSET
                   \/ Len(three) # EFFORT_OFFSET
                   \/ Len(result) # CHALLENGE_LEN]

\* Challenge::seed
Challenge_seed(bytes) == Slice(bytes, SEED_OFFSET, SEED_LEN)

\* Challenge::nonce
Challenge_nonce(bytes) == Slice(bytes, NONCE_OFFSET, NONCE_LEN)

\* Challenge::effort
Challenge_effort(bytes) == from_be_bytes(Slice(bytes, EFFORT_OFFSET, EFFORT_LEN))

\* inc_le_bytes that does not carry into the next byte
inc_le_bytes_no_carry(slice) ==
    IF slice = << >> THEN << >>
    ELSE <<(Head(slice) + 1) % 256>> \o Tail(slice)

\* inc_le_bytes: add one to each byte until one does not overflow
RECURSIVE inc_le_bytes(_)
inc_le_bytes(slice) ==
    IF slice = << >> THEN << >>
    ELSE LET value == (Head(slice) + 1) % 256
             overflow == Head(slice) = 255
         IN  IF ~overflow THEN <<value>> \o Tail(slice)
             ELSE <<value>> \o inc_le_bytes(Tail(slice))

\* Challenge::increment_nonce, on the bytes
Challenge_increment_nonce(bytes) ==
    SubSeq(bytes, 1, NONCE_OFFSET)
        \o inc_le_bytes(Slice(bytes, NONCE_OFFSET, NONCE_LEN))
        \o SubSeq(bytes, NONCE_OFFSET + NONCE_LEN + 1, Len(bytes))

\* The product of two numbers below 2^16, as a u32.
mul16(a, b) ==
    LET upper == (a \div 256) * b
        lower == (a % 256) * b
        rest == (upper % 256) * 256 + lower
    IN  U32(upper \div 256 + rest \div 65536, rest % 65536)

\* checked_mul that looks only at the upper halves of its operands
checked_mul_upper_only(x, y) ==
    IF x[1] > 0 /\ y[1] > 0 THEN None ELSE Some(U32(0, 0))

\* wrapping_mul in the place of checked_mul: there is always a product
checked_mul_wrapping(x, y) == Some(U32(0, 0))

\* u32::checked_mul: the product, or None when it is 2^32 or more
checked_mul(x, y) ==
    IF x[1] > 0 /\ y[1] > 0 THEN None
    ELSE LET small == IF x[1] = 0 THEN x[2] ELSE y[2]
             other == IF x[1] = 0 THEN y ELSE x
             low == mul16(small, other[2])
         IN  IF other[1] > 0 /\ small > 65535 \div other[1] THEN None
             ELSE LET high == small * other[1] + low[1] IN
                  IF high > 65535 THEN None ELSE Some(U32(high, low[2]))

\* Challenge::check_effort, given the u32 read from the Blake2b hash of the
\* challenge and the proof
Challenge_check_effort(bytes, value) ==
    IF checked_mul(value, Challenge_effort(bytes)) # None THEN "Ok" ELSE "Effort"

\* The record of the last operation on a challenge.
ChallengeOp(name, value, ret) == [name |-> name, value |-> value, ret |-> ret]

\* Instance: a service identity and a seed.
Instances ==
    {[service |-> [i \in 1..ID_LEN |-> i], seed |-> [i \in 1..SEED_LEN |-> 100 + i]],
     [service |-> Bytes(ID_LEN, 255), seed |-> Bytes(SEED_LEN, 0)]}

\* The nonce of k bytes 0xFF, then a byte b, then zeros.
NonceOf(k, b) ==
    [i \in 1..NONCE_LEN |-> IF i <= k THEN 255 ELSE IF i = k + 1 THEN b ELSE 0]

Nonces ==
    {NonceOf(k, b) : k \in {0, 1, NONCE_LEN - 1}, b \in {0, 254}}
        \cup {Bytes(NONCE_LEN, 255), [i \in 1..NONCE_LEN |-> 16 * i - 1]}

\* The greatest u32, and the neighbours of a u32.
U32_MAX == U32(65535, 65535)
u32_pred(u) == IF u[2] = 0 THEN U32(u[1] - 1, 65535) ELSE U32(u[1], u[2] - 1)
u32_succ(u) == IF u[2] = 65535 THEN U32(u[1] + 1, 0) ELSE U32(u[1], u[2] + 1)

\* Efforts, each with the whole part of (2^32 - 1) / effort.
EffortTable ==
    {<<U32(0, 1), U32_MAX>>,
     <<U32(0, 2), U32(32767, 65535)>>,
     <<U32(0, 3), U32(21845, 21845)>>,
     <<U32(0, 5), U32(13107, 13107)>>,
     <<U32(0, 7), U32(9362, 18724)>>,
     <<U32(0, 10), U32(6553, 39321)>>,
     <<U32(0, 15), U32(4369, 4369)>>,
     <<U32(0, 17), U32(3855, 3855)>>,
     <<U32(0, 255), U32(257, 257)>>,
     <<U32(0, 256), U32(255, 65535)>>,
     <<U32(0, 257), U32(255, 255)>>,
     <<U32(0, 1000), U32(65, 35127)>>,
     <<U32(0, 65535), U32(1, 1)>>,
     <<U32(1, 0), U32(0, 65535)>>,
     <<U32(1, 1), U32(0, 65535)>>,
     <<U32(32768, 0), U32(0, 1)>>,
     <<U32_MAX, U32(0, 1)>>}

Efforts == {U32(0, 0)} \cup {row[1] : row \in EffortTable}

\* Hash values: the least, the greatest, and those about each threshold.
Values ==
    {U32(0, 0), U32(0, 1), U32(0, 2), U32_MAX}
        \cup {row[2] : row \in EffortTable}
        \cup {u32_pred(row[2]) : row \in EffortTable}
        \cup {u32_succ(row[2]) : row \in {r \in EffortTable : r[2] # U32_MAX}}

\* There is a challenge: Challenge::new returned one.
Built == challenge.built /\ ~challenge.panic

\* Challenge::new(instance, effort, nonce), on the arguments chosen
new ==
    /\ ~challenge.built
    /\ LET c == Challenge_new(challenge.instance, challenge.effort, challenge.nonce) IN
       challenge' = [challenge EXCEPT
                       !.bytes = c.bytes, !.panic = c.panic, !.built = TRUE,
                       !.op = ChallengeOp("new", U32(0, 0), << >>)]
    /\ UNCHANGED <<mapvars, tracker, utils>>

\* Challenge::seed
seed ==
    /\ Built
    /\ challenge' = [challenge EXCEPT
                       !.op = ChallengeOp("seed", U32(0, 0), Challenge_seed(challenge.bytes))]
    /\ UNCHANGED <<mapvars, tracker, utils>>

\* Challenge::nonce
nonce ==
    /\ Built
    /\ challenge' = [challenge EXCEPT
                       !.op = ChallengeOp("nonce", U32(0, 0), Challenge_nonce(challenge.bytes))]
    /\ UNCHANGED <<mapvars, tracker, utils>>

\* Challenge::effort
effort ==
    /\ Built
    /\ challenge' = [challenge EXCEPT
                       !.op = ChallengeOp("effort", U32(0, 0), Challenge_effort(challenge.bytes))]
    /\ UNCHANGED <<mapvars, tracker, utils>>

\* Challenge::increment_nonce
increment_nonce ==
    /\ Built
    /\ challenge' = [challenge EXCEPT
                       !.bytes = Challenge_increment_nonce(@),
                       !.incs = @ + 1,
                       !.op = ChallengeOp("increment_nonce", U32(0, 0), << >>)]
    /\ UNCHANGED <<mapvars, tracker, utils>>

\* Challenge::check_effort, on a proof that hashes to `value`
check_effort(value) ==
    /\ Built
    /\ challenge' = [challenge EXCEPT
                       !.op = ChallengeOp("check_effort", value,
                                          Challenge_check_effort(challenge.bytes, value))]
    /\ UNCHANGED <<mapvars, tracker, utils>>

\* The arguments of Challenge::new are chosen; no challenge is made yet.
InitPow ==
    /\ IdleStreamMap
    /\ tracker = NoTracker
    /\ IdleUtils
    /\ \E I \in Instances, E \in Efforts, N \in Nonces :
          challenge = [NoChallenge EXCEPT !.instance = I, !.effort = E, !.nonce = N]

\* A further increment_nonce may be made.
IncrementLeft == challenge.incs < MaxIncrements

NextPow ==
    \/ new
    \/ seed
    \/ nonce
    \/ effort
    \/ IncrementLeft /\ increment_nonce
    \/ \E value \in Values : check_effort(value)

SpecPow == InitPow /\ [][NextPow]_vars

(* ------------- counting filter (tor-basic-utils iter.rs) --------------- *)

\* The length of the inner iterator.
MaxItems == 3

\* The items of the inner iterator, and the predicates passed to filter_cnt.
FilterItems == 1..3
FilterPreds == {"even", "odd", "all", "none"}

\* (self.pred)(&item)
pred_holds(pred, item) ==
    CASE pred = "even" -> item % 2 = 0
      [] pred = "odd"  -> item % 2 = 1
      [] pred = "all"  -> TRUE
      [] pred = "none" -> FALSE

\* FilterCount
FilterCount(n_accepted, n_rejected) ==
    [n_accepted |-> n_accepted, n_rejected |-> n_rejected]

\* FilterCount::default()
FilterCount_default == FilterCount(0, 0)

\* Counts that the caller's FilterCount may hold from an earlier use.
EarlierCounts == {FilterCount_default, FilterCount(2, 5)}

\* CountingFilter::next that does not count the items it rejects
RECURSIVE CountingFilter_next_accepts_only(_, _, _)
CountingFilter_next_accepts_only(inner, pred, count) ==
    IF inner = << >> THEN [inner |-> inner, count |-> count, ret |-> None]
    ELSE IF pred_holds(pred, Head(inner))
    THEN [inner |-> Tail(inner),
          count |-> [count EXCEPT !.n_accepted = @ + 1],
          ret |-> Some(Head(inner))]
    ELSE CountingFilter_next_accepts_only(Tail(inner), pred, count)

\* CountingFilter::next: what is left of the inner iterator, the count, and
\* the item returned
RECURSIVE CountingFilter_next(_, _, _)
CountingFilter_next(inner, pred, count) ==
    IF inner = << >> THEN [inner |-> inner, count |-> count, ret |-> None]
    ELSE IF pred_holds(pred, Head(inner))
    THEN [inner |-> Tail(inner),
          count |-> [count EXCEPT !.n_accepted = @ + 1],
          ret |-> Some(Head(inner))]
    ELSE CountingFilter_next(Tail(inner), pred,
                             [count EXCEPT !.n_rejected = @ + 1])

\* filter_cnt leaving the caller's count as it finds it
filter_cnt_count_kept(count) == count

\* filter_cnt: `*count = FilterCount::default();`
filter_cnt_count(count) == FilterCount_default

\* IteratorExt::filter_cnt(self, count, pred)
filter_cnt ==
    /\ filter.phase = "iterator"
    /\ filter' = [filter EXCEPT
                    !.phase = "filtering",
                    !.count = filter_cnt_count(@),
                    !.op = "filter_cnt"]
    /\ UNCHANGED <<mapvars, tracker, challenge, policy, ffi, keymanip>>

\* CountingFilter::next
next ==
    /\ filter.phase = "filtering"
    /\ LET r == CountingFilter_next(filter.inner, filter.pred, filter.count) IN
       filter' = [filter EXCEPT
                    !.inner = r.inner,
                    !.count = r.count,
                    !.yielded = IF r.ret = None THEN @ ELSE Append(@, r.ret[1]),
                    !.calls = @ + 1,
                    !.op = "next"]
    /\ UNCHANGED <<mapvars, tracker, challenge, policy, ffi, keymanip>>

\* The sequences over S of length n, and of length up to n.
RECURSIVE SeqsOfLen(_, _)
SeqsOfLen(S, n) ==
    IF n = 0 THEN {<< >>}
    ELSE {Append(q, x) : q \in SeqsOfLen(S, n - 1), x \in S}
SeqsUpTo(S, n) == UNION {SeqsOfLen(S, k) : k \in 0..n}

\* An iterator, a predicate and the caller's FilterCount.
InitFilter ==
    /\ IdleStreamMap
    /\ tracker = NoTracker
    /\ challenge = NoChallenge
    /\ policy = NoPolicy
    /\ ffi = NoFfi
    /\ keymanip = NoKeys
    /\ \E items \in SeqsUpTo(FilterItems, MaxItems), pred \in FilterPreds,
          count \in EarlierCounts :
          filter = [phase |-> "iterator", items |-> items, inner |-> items,
                    pred |-> pred, count |-> count, yielded |-> << >>,
                    calls |-> 0, op |-> "none"]

\* A further call of next may be made: one more than there are items.
NextLeft == filter.calls <= MaxItems

NextFilter ==
    \/ filter_cnt
    \/ NextLeft /\ next

SpecFilter == InitFilter /\ [][NextFilter]_vars

(* ------------- short port policies (tor-netdoc policy/short.rs) -------- *)

\* The number of port ranges in a policy string.
MaxRanges == 2

\* The greatest port, and the ports that ranges begin and end at.
PORT_MAX == 65535
EdgePorts == {1, 2, 80, PORT_MAX - 1, PORT_MAX}

\* PortRange::new_unchecked(lo, hi)
PortRange_new_unchecked(lo, hi) == [lo |-> lo, hi |-> hi]

\* PortRange::contains
PortRange_contains(range, port) == range.lo <= port /\ port <= range.hi

\* The items of a policy string, each parsed as a PortRange: 1 <= lo <= hi.
PortRanges ==
    {PortRange_new_unchecked(q[1], q[2]) :
        q \in {e \in EdgePorts \X EdgePorts : e[1] <= e[2]}}

\* The words a policy string begins with; only the first two are policies.
PolicyWords == {"accept ", "reject ", "allow "}

\* `prev_hi + 1` on a u16: the sum, which does not fit when prev_hi is 65535
u16_add_one(x) == (x + 1) % 65536

\* PortPolicy::invert pushing the gap up to and including entry.lo
RECURSIVE invert_closed_gaps(_, _, _)
invert_closed_gaps(allowed, prev_hi, new_allowed) ==
    IF allowed = << >>
    THEN IF prev_hi < PORT_MAX
         THEN Append(new_allowed, PortRange_new_unchecked(prev_hi + 1, PORT_MAX))
         ELSE new_allowed
    ELSE LET entry == Head(allowed) IN
         invert_closed_gaps(Tail(allowed), entry.hi,
                IF entry.lo > u16_add_one(prev_hi)
                THEN Append(new_allowed,
                            PortRange_new_unchecked(u16_add_one(prev_hi), entry.lo))
                ELSE new_allowed)

\* PortPolicy::invert, the loop and the range after it: new_allowed
RECURSIVE invert(_, _, _)
invert(allowed, prev_hi, new_allowed) ==
    IF allowed = << >>
    THEN IF prev_hi < PORT_MAX
         THEN Append(new_allowed, PortRange_new_unchecked(prev_hi + 1, PORT_MAX))
         ELSE new_allowed
    ELSE LET entry == Head(allowed) IN
         invert(Tail(allowed), entry.hi,
                IF entry.lo > u16_add_one(prev_hi)
                THEN Append(new_allowed,
                            PortRange_new_unchecked(u16_add_one(prev_hi), entry.lo - 1))
                ELSE new_allowed)

\* PortPolicy::invert: whether `prev_hi + 1` overflows in the loop
RECURSIVE invert_overflows(_, _)
invert_overflows(allowed, prev_hi) ==
    /\ allowed # << >>
    /\ \/ prev_hi = PORT_MAX
       \/ invert_overflows(Tail(allowed), Head(allowed).hi)

\* PortPolicy::allows_port
allows_port(pp, port) == \E i \in 1..Len(pp) : PortRange_contains(pp[i], port)

\* from_str, the loop over the items: whether each range begins after the
\* one before it ends
RECURSIVE from_str_ordered(_)
from_str_ordered(items) ==
    \/ Len(items) <= 1
    \/ /\ items[2].lo > items[1].hi
       /\ from_str_ordered(Tail(items))

\* PortPolicy::from_str on the string `word` followed by the items
PortPolicy_from_str(word, items) ==
    IF word \notin {"accept ", "reject "} THEN [ok |-> FALSE, allowed |-> << >>,
                                               overflow |-> FALSE]
    ELSE IF ~from_str_ordered(items) THEN [ok |-> FALSE, allowed |-> << >>,
                                           overflow |-> FALSE]
    ELSE IF word = "reject "
    THEN [ok |-> TRUE, allowed |-> invert(items, 0, << >>),
          overflow |-> invert_overflows(items, 0)]
    ELSE [ok |-> TRUE, allowed |-> items, overflow |-> FALSE]

\* str::parse::<PortPolicy>() on `word` and the items chosen
from_str(word) ==
    /\ policy.phase = "text"
    /\ word \notin DOMAIN policy.parsed
    /\ policy' = [policy EXCEPT
                    !.parsed = [w \in DOMAIN @ \cup {word} |->
                                  IF w = word THEN PortPolicy_from_str(word, policy.items)
                                  ELSE @[w]],
                    !.op = [name |-> "from_str", word |-> word,
                            ret |-> PortPolicy_from_str(word, policy.items).ok]]
    /\ UNCHANGED <<mapvars, tracker, challenge, filter, ffi, keymanip>>

\* The items of a policy string are chosen; nothing is parsed yet.
InitPolicy ==
    /\ IdleStreamMap
    /\ tracker = NoTracker
    /\ challenge = NoChallenge
    /\ filter = NoFilter
    /\ ffi = NoFfi
    /\ keymanip = NoKeys
    /\ \E items \in SeqsUpTo(PortRanges, MaxRanges) \ {<< >>} :
          policy = [phase |-> "text", items |-> items, parsed |-> << >>,
                    op |-> [name |-> "none", word |-> "", ret |-> FALSE]]

NextPolicy ==
    \E word \in PolicyWords : from_str(word)

SpecPolicy == InitPolicy /\ [][NextPolicy]_vars

(* ------------- FFI helpers (arti-rpc-client-core ffi/util.rs) ---------- *)

\* The number of conversions an FFI function declares.
MaxArgs == 2

\* The conversion methods, and those that make an OutPtr.
Hows == {"in_ptr_required", "in_ptr_opt", "in_str_required",
         "in_ptr_consume_opt", "out_ptr_required", "out_ptr_opt"}
OutHows == {"out_ptr_required", "out_ptr_opt"}

\* What the caller may pass for an input of each method.
PtrsOf(how) ==
    IF how = "in_str_required" THEN {"NULL", "valid", "bad_utf8"}
    ELSE {"NULL", "valid"}
FfiArgs == UNION {{[how |-> how, ptr |-> ptr] : ptr \in PtrsOf(how)} : how \in Hows}

\* What the caller's `T *` holds before the call, where there is one: junk.
CellOf(how, ptr) ==
    IF how \in OutHows /\ ptr = "valid" THEN "junk" ELSE "unmapped"

\* Result<_, InvalidInput>
Ok(v) == [ok |-> TRUE, v |-> v]
Err(e) == [ok |-> FALSE, v |-> e]

\* ptr_to_str
ptr_to_str(p) ==
    IF p = "NULL" THEN Err("NullPointer")
    ELSE IF p = "bad_utf8" THEN Err("BadUtf8")
    ELSE Ok("str")

\* ptr_to_opt_box
ptr_to_opt_box(p) == IF p = "NULL" THEN None ELSE Some("box")

\* ptr_as_ref
ptr_as_ref(ptr) == IF ptr = "NULL" THEN Err("NullPointer") ELSE Ok("ref")

\* OutPtr::from_opt_ptr: the OutPtr, and what `*ptr` holds afterwards
OutPtr_from_opt_ptr(ptr, cell) ==
    IF ptr = "NULL" THEN [out |-> None, cell |-> cell]
    ELSE [out |-> Some("ptr"), cell |-> "NULL"]

\* OutPtr::from_ptr_nonnull
OutPtr_from_ptr_nonnull(ptr, cell) ==
    LET r == OutPtr_from_opt_ptr(ptr, cell) IN
    IF r.out = None THEN [res |-> Err("NullPointer"), cell |-> r.cell]
    ELSE [res |-> Ok(r.out), cell |-> r.cell]

\* OutPtr::write_value_if_nonnull: what `*ptr` holds afterwards
OutPtr_write_value_if_nonnull(out, cell) ==
    IF out # None THEN "new" ELSE cell

\* ffi_initialize!{ @init name [how] }
ffi_initialize_init(how, ptr, cell) ==
    CASE how = "in_ptr_required" -> [res |-> ptr_as_ref(ptr), cell |-> cell]
      [] how = "in_ptr_opt" -> [res |-> Ok(ptr_as_ref(ptr)), cell |-> cell]
      [] how = "in_str_required" -> [res |-> ptr_to_str(ptr), cell |-> cell]
      [] how = "in_ptr_consume_opt" -> [res |-> Ok(ptr_to_opt_box(ptr)), cell |-> cell]
      [] how = "out_ptr_required" -> OutPtr_from_ptr_nonnull(ptr, cell)
      [] how = "out_ptr_opt" ->
            [res |-> Ok(OutPtr_from_opt_ptr(ptr, cell).out),
             cell |-> OutPtr_from_opt_ptr(ptr, cell).cell]

\* The conversions of ffi_initialize leaving at the first that fails
RECURSIVE ffi_initialize_exits_early(_, _)
ffi_initialize_exits_early(args, cells) ==
    IF args = << >> THEN [results |-> << >>, cells |-> << >>]
    ELSE LET c == ffi_initialize_init(Head(args).how, Head(args).ptr, Head(cells)) IN
         IF ~c.res.ok
         THEN [results |-> <<c.res>>, cells |-> <<c.cell>> \o Tail(cells)]
         ELSE LET rest == ffi_initialize_exits_early(Tail(args), Tail(cells)) IN
              [results |-> <<c.res>> \o rest.results,
               cells |-> <<c.cell>> \o rest.cells]

\* ffi_initialize, the conversions: each `let name : Result<..> = @init`
RECURSIVE ffi_initialize_conversions(_, _)
ffi_initialize_conversions(args, cells) ==
    IF args = << >> THEN [results |-> << >>, cells |-> << >>]
    ELSE LET c == ffi_initialize_init(Head(args).how, Head(args).ptr, Head(cells))
             rest == ffi_initialize_conversions(Tail(args), Tail(cells))
         IN  [results |-> <<c.res>> \o rest.results,
              cells |-> <<c.cell>> \o rest.cells]

\* ffi_initialize, the match: `Ok((name?, ...))`
ffi_initialize_ok(results) == \A i \in 1..Len(results) : results[i].ok

\* The conversions of ffi_body_simple and ffi_body_with_err; with an error
\* out-pointer, it is made an OutPtr first and the error is written to it.
ffi_initialize ==
    /\ ffi.phase = "call"
    /\ ffi.pc = "entry"
    /\ LET e == IF ffi.macro = "ffi_body_with_err"
                THEN OutPtr_from_opt_ptr(ffi.err_out, ffi.err_cell)
                ELSE [out |-> None, cell |-> ffi.err_cell]
           c == ffi_initialize_conversions(ffi.args, ffi.cells)
           ok == ffi_initialize_ok(c.results)
       IN  ffi' = [ffi EXCEPT
                     !.results = c.results,
                     !.cells = c.cells,
                     !.err_cell = IF ok THEN e.cell
                                  ELSE OutPtr_write_value_if_nonnull(e.out, e.cell),
                     !.pc = IF ok THEN "body" ELSE "returned",
                     !.ret = IF ok THEN "none"
                             ELSE IF ffi.macro = "ffi_body_with_err" THEN "status"
                             ELSE "on invalid"]
    /\ UNCHANGED <<mapvars, tracker, challenge, filter, policy, keymanip>>

\* The outcomes of the body of each kind of FFI function.
BodyOutcomes(macro) ==
    IF macro = "ffi_body_with_err" THEN {"Ok", "Err", "panic"} ELSE {"Ok", "panic"}

\* The body: it writes to the OutPtrs of `written`, then ends as `outcome`.
body(written, outcome) ==
    /\ ffi.phase = "call"
    /\ ffi.pc = "body"
    /\ outcome \in BodyOutcomes(ffi.macro)
    /\ \A i \in written : ffi.args[i].how \in OutHows
    /\ ffi' = [ffi EXCEPT
                 !.cells = [i \in DOMAIN @ |->
                              IF i \in written
                              THEN OutPtr_write_value_if_nonnull(ffi.results[i].v, @[i])
                              ELSE @[i]],
                 !.err_cell = IF outcome = "Err"
                              THEN OutPtr_write_value_if_nonnull(
                                       OutPtr_from_opt_ptr(ffi.err_out, @).out, @)
                              ELSE @,
                 !.pc = "returned",
                 !.ret = CASE outcome = "panic" ->
                                IF ffi.macro = "ffi_body_with_err" THEN "abort"
                                ELSE "on panic"
                           [] outcome = "Err" -> "status"
                           [] OTHER -> "value"]
    /\ UNCHANGED <<mapvars, tracker, challenge, filter, policy, keymanip>>

\* The error out-pointers of the two kinds of FFI function.
FfiKinds ==
    {[macro |-> "ffi_body_simple", err_out |-> "NULL"]} \cup
    {[macro |-> "ffi_body_with_err", err_out |-> ptr] : ptr \in {"NULL", "valid"}}

\* An FFI function is called; whatever the out-pointers point at holds junk.
InitFfi ==
    /\ IdleStreamMap
    /\ tracker = NoTracker
    /\ challenge = NoChallenge
    /\ filter = NoFilter
    /\ policy = NoPolicy
    /\ keymanip = NoKeys
    /\ \E args \in SeqsUpTo(FfiArgs, MaxArgs), kind \in FfiKinds :
          ffi = [phase |-> "call", macro |-> kind.macro, args |-> args,
                 cells |-> [i \in DOMAIN args |-> CellOf(args[i].how, args[i].ptr)],
                 err_out |-> kind.err_out,
                 err_cell |-> IF kind.err_out = "valid" THEN "junk" ELSE "unmapped",
                 results |-> << >>, pc |-> "entry", ret |-> "none"]

NextFfi ==
    \/ ffi_initialize
    \/ \E written \in SUBSET DOMAIN ffi.args, outcome \in {"Ok", "Err", "panic"} :
          body(written, outcome)

SpecFfi == InitFfi /\ [][NextFfi]_vars

(* ------------- key manipulation (tor-llcrypto pk/keymanip.rs) ---------- *)

\* The curve, scaled down: a byte stands for the 32 bytes of a key, the base
\* point has the prime order ELL just above 2^4 (as 2^252 + ... is to 2^255)
\* and the curve has ELL * COFACTOR points.  A point is <<k, t>>: k times the
\* base point plus t times a point of order COFACTOR.
ELL == 17
COFACTOR == 8
KeyBytes == 0..255
Points == (0..(ELL - 1)) \X (0..(COFACTOR - 1))

\* curve25519_dalek::constants::ED25519_BASEPOINT_POINT
ED25519_BASEPOINT_POINT == <<1, 0>>

\* Scalar * EdwardsPoint, and -EdwardsPoint
point_mul(n, P) == <<(n * P[1]) % ELL, (n * P[2]) % COFACTOR>>
point_neg(P) == <<(ELL - P[1]) % ELL, (COFACTOR - P[2]) % COFACTOR>>

\* The y coordinate of a point, which P and -P share, and the sign of its x
\* coordinate, in which they differ unless x is 0.
point_key(P) == P[1] * COFACTOR + P[2]
point_y(P) ==
    IF point_key(P) <= point_key(point_neg(P)) THEN point_key(P)
    ELSE point_key(point_neg(P))
point_x_sign(P) ==
    IF P = point_neg(P) THEN 0
    ELSE IF (point_key(P) > point_key(point_neg(P))) = (point_y(P) % 2 = 0)
    THEN 1 ELSE 0

\* A y coordinate that is not on the curve.
OffCurve == ELL * COFACTOR

\* EdwardsPoint::compress, CompressedEdwardsY::decompress
compress(P) == [y |-> point_y(P), sign |-> point_x_sign(P)]
decompress(c) ==
    IF \E P \in Points : point_y(P) = c.y
    THEN Some(CHOOSE P \in Points :
                /\ point_y(P) = c.y
                /\ point_x_sign(P) = c.sign \/ P = point_neg(P))
    ELSE None

\* EdwardsPoint::to_montgomery, MontgomeryPoint::to_edwards(sign)
to_montgomery(P) == point_y(P)
to_edwards(u, sign) == decompress([y |-> u, sign |-> sign])

\* curve25519_dalek::scalar::clamp_integer: the low three bits and the top
\* bit are cleared, the bit below the top is set
clamp_integer(bytes) == ((bytes % 64) \div 8) * 8 + 64

\* Scalar::from_bytes_mod_order
Scalar_from_bytes_mod_order(bytes) == bytes % ELL

\* Sha512 of the parts chained
Sha512(parts) == [sha512 |-> parts]

\* ExpandedSecretKey::from_bytes: the lower half is clamped and reduced
ExpandedSecretKey_from_bytes(lower, upper) ==
    [scalar |-> Scalar_from_bytes_mod_order(clamp_integer(lower)),
     hash_prefix |-> upper]

\* PublicKey::from(&ExpandedSecretKey)
PublicKey_from(secret) == compress(point_mul(secret.scalar, ED25519_BASEPOINT_POINT))

\* PublicKey::from_bytes
PublicKey_from_bytes(bytes) ==
    IF decompress(bytes) = None THEN Err("SignatureError") ELSE Ok(bytes)

\* curve25519::PublicKey::from(&StaticSecret): the secret is clamped in use
curve25519_PublicKey_from(privkey) ==
    to_montgomery(point_mul(clamp_integer(privkey), ED25519_BASEPOINT_POINT))

\* convert_curve25519_to_ed25519_public
convert_curve25519_to_ed25519_public(pubkey, signbit) ==
    LET edpoint == to_edwards(pubkey, signbit) IN
    IF edpoint = None THEN None
    ELSE LET r == PublicKey_from_bytes(compress(edpoint[1])) IN
         IF r.ok THEN Some(r.v) ELSE None

\* convert_curve25519_to_ed25519_private giving no sign bit
convert_curve25519_to_ed25519_private_sign_0(privkey, debug_assertions) ==
    LET h == Sha512(<<privkey, "Derive high part of ed25519 key from curve25519 key">>)
        secret == ExpandedSecretKey_from_bytes(privkey, h)
        public == PublicKey_from(secret)
        signbit == 0
        ed_pubkey1 == convert_curve25519_to_ed25519_public(
                          curve25519_PublicKey_from(privkey), signbit)
    IN  IF debug_assertions /\ ed_pubkey1 = None THEN [ret |-> None, panic |-> FALSE]
        ELSE IF debug_assertions /\ ed_pubkey1 # Some(public)
        THEN [ret |-> None, panic |-> TRUE]
        ELSE [ret |-> Some([keypair |-> [public |-> public, secret |-> secret],
                            signbit |-> signbit]),
              panic |-> FALSE]

\* convert_curve25519_to_ed25519_private, with and without debug_assertions
convert_curve25519_to_ed25519_private(privkey, debug_assertions) ==
    LET h == Sha512(<<privkey, "Derive high part of ed25519 key from curve25519 key">>)
        secret == ExpandedSecretKey_from_bytes(privkey, h)
        public == PublicKey_from(secret)
        signbit == public.sign
        ed_pubkey1 == convert_curve25519_to_ed25519_public(
                          curve25519_PublicKey_from(privkey), signbit)
    IN  IF debug_assertions /\ ed_pubkey1 = None THEN [ret |-> None, panic |-> FALSE]
        ELSE IF debug_assertions /\ ed_pubkey1 # Some(public)
        THEN [ret |-> None, panic |-> TRUE]
        ELSE [ret |-> Some([keypair |-> [public |-> public, secret |-> secret],
                            signbit |-> signbit]),
              panic |-> FALSE]

\* clamp_blinding_factor
clamp_blinding_factor(h) == Scalar_from_bytes_mod_order(clamp_integer(h))

\* blind_pubkey
blind_pubkey(pk, h) ==
    LET blinding_factor == clamp_blinding_factor(h)
        pubkey_point == decompress(pk)
    IN  IF pubkey_point = None THEN Err("BadPubkey")
        ELSE LET r == PublicKey_from_bytes(
                          compress(point_mul(blinding_factor, pubkey_point[1])))
             IN  IF r.ok THEN r ELSE Err("BlindingFailed")

\* blind_keypair adding the blinding factor to the secret scalar
blind_keypair_adds(keypair, h, debug_assertions) ==
    LET blinding_factor == clamp_blinding_factor(h)
        secret == [scalar |-> (keypair.secret.scalar + blinding_factor) % ELL,
                   hash_prefix |-> Sha512(<<"Derive temporary signing key hash input",
                                            keypair.secret.hash_prefix>>)]
        public == PublicKey_from(secret)
        public2 == blind_pubkey(keypair.public, h)
    IN  IF debug_assertions /\ ~public2.ok THEN [ret |-> public2, panic |-> FALSE]
        ELSE IF debug_assertions /\ public2.v # public
        THEN [ret |-> Err("panic"), panic |-> TRUE]
        ELSE [ret |-> Ok([secret |-> secret, public |-> public]), panic |-> FALSE]

\* blind_keypair, with and without debug_assertions
blind_keypair(keypair, h, debug_assertions) ==
    LET blinding_factor == clamp_blinding_factor(h)
        secret == [scalar |-> (keypair.secret.scalar * blinding_factor) % ELL,
                   hash_prefix |-> Sha512(<<"Derive temporary signing key hash input",
                                            keypair.secret.hash_prefix>>)]
        public == PublicKey_from(secret)
        public2 == blind_pubkey(keypair.public, h)
    IN  IF debug_assertions /\ ~public2.ok THEN [ret |-> public2, panic |-> FALSE]
        ELSE IF debug_assertions /\ public2.v # public
        THEN [ret |-> Err("panic"), panic |-> TRUE]
        ELSE [ret |-> Ok([secret |-> secret, public |-> public]), panic |-> FALSE]

\* tests::blinding: blind_pubkey(&pk, param)
call_blind_pubkey ==
    /\ keymanip.phase = "blinding"
    /\ keymanip.blinded_pk = None
    /\ keymanip' = [keymanip EXCEPT
                      !.blinded_pk = Some(blind_pubkey(keymanip.kp.public, keymanip.h))]
    /\ UNCHANGED <<mapvars, tracker, challenge, filter, policy, ffi>>

\* tests::blinding: blind_keypair(&kp_in, param)
call_blind_keypair ==
    /\ keymanip.phase = "blinding"
    /\ keymanip.blinded_kp = None
    /\ keymanip' = [keymanip EXCEPT
                      !.blinded_kp = Some(blind_keypair(keymanip.kp, keymanip.h,
                                                        keymanip.debug_assertions))]
    /\ UNCHANGED <<mapvars, tracker, challenge, filter, policy, ffi>>

\* tests::curve_to_ed_compatible: convert_curve25519_to_ed25519_private(&curve_sk)
call_convert_private ==
    /\ keymanip.phase = "convert"
    /\ keymanip.ed_kp = None
    /\ keymanip' = [keymanip EXCEPT
                      !.ed_kp = Some(convert_curve25519_to_ed25519_private(
                                        keymanip.curve_sk, keymanip.debug_assertions))]
    /\ UNCHANGED <<mapvars, tracker, challenge, filter, policy, ffi>>

\* tests::curve_to_ed_compatible:
\* convert_curve25519_to_ed25519_public(&curve_pk, signbit), with the sign bit
\* that the private conversion gave
call_convert_public ==
    /\ keymanip.phase = "convert"
    /\ keymanip.ed_kp # None
    /\ keymanip.ed_kp[1].ret # None
    /\ keymanip.ed_pk2 = None
    /\ keymanip' = [keymanip EXCEPT
                      !.ed_pk2 = Some(convert_curve25519_to_ed25519_public(
                                         curve25519_PublicKey_from(keymanip.curve_sk),
                                         keymanip.ed_kp[1].ret[1].signbit))]
    /\ UNCHANGED <<mapvars, tracker, challenge, filter, policy, ffi>>

\* ExpandedKeypair: a secret scalar, a hash prefix and the public key of the
\* scalar.
ExpandedKeypairs ==
    {[secret |-> [scalar |-> a, hash_prefix |-> "prefix"],
      public |-> PublicKey_from([scalar |-> a, hash_prefix |-> "prefix"])] :
        a \in 0..(ELL - 1)}

\* Either a key pair and a blinding input, or a curve25519 secret.
InitKeys ==
    /\ IdleStreamMap
    /\ tracker = NoTracker
    /\ challenge = NoChallenge
    /\ filter = NoFilter
    /\ policy = NoPolicy
    /\ ffi = NoFfi
    /\ \E debug_assertions \in BOOLEAN :
          \/ \E kp \in ExpandedKeypairs, h \in KeyBytes :
                keymanip = [phase |-> "blinding", debug_assertions |-> debug_assertions,
                            kp |-> kp, h |-> h,
                            blinded_pk |-> None, blinded_kp |-> None]
          \/ \E curve_sk \in KeyBytes :
                keymanip = [phase |-> "convert", debug_assertions |-> debug_assertions,
                            curve_sk |-> curve_sk, ed_kp |-> None, ed_pk2 |-> None]

NextKeys ==
    \/ call_blind_pubkey
    \/ call_blind_keypair
    \/ call_convert_private
    \/ call_convert_public

SpecKeys == InitKeys /\ [][NextKeys]_vars

(* ------------------------------- claims -------------------------------- *)

\* The map entries in the Open variant.
OpenIds == {id \in DOMAIN m.map : IsOpen(m.map[id])}

\* C1: every stream id that has a source in rxs is in the map as an Open
\* entry; an id that went Open -> EndReceived, or that left the map, has no
\* source left in rxs.
C1_RxsKeysAreOpen == \A id \in DOMAIN rxs : IsOpen(cm_get(m, id))

\* C2: every Open entry of the map has its source, under the same stream id, in
\* rxs, so terminate's expect("Missing receiver") does not fail.
C2_OpenHasSource ==
    /\ \A id \in OpenIds : id \in DOMAIN rxs
    /\ panicked # "Missing receiver"

\* C2 witness: terminate found the receiver of one open stream while another
\* stream is still open.
C2_Witness ==
    /\ last.op = "terminate" /\ last.ret = "Send"
    /\ OpenIds # {}

\* C3: after any calls, failed ones included, n_open_streams() is the number
\* of map entries in the Open variant.
C3_CountMatches == n_open_streams = Cardinality(OpenIds)

\* C3 witness: a call has just failed on a map that holds one open entry and
\* one entry that is not open.
C3_Witness ==
    /\ last.ret \in {"CircProto", "Internal", "BadApiUsage", "IdUnavailable"}
    /\ n_open_streams = 1
    /\ Cardinality(DOMAIN m.map) = 2

\* C4: ending_msg_received(id) returns Ok exactly when the entry was Open or
\* EndSent; from Open the entry is EndReceived afterwards and still in the map,
\* from EndSent it is gone, get_mut(id) giving nothing.
C4_EndingMsgReceived ==
    last.op = "ending_msg_received" =>
        /\ last.ret = "Ok" <=> last.pre.tag \in {"Open", "EndSent"}
        /\ last.pre.tag = "Open" => get_mut(last.id) = EndReceivedEnt
        /\ last.pre.tag = "EndSent" =>
              /\ last.id \notin DOMAIN m.map
              /\ get_mut(last.id) = NoEnt

\* C4 witness: the END arrived for a stream in EndSent, and its entry is gone.
C4_Witness ==
    /\ last.op = "ending_msg_received" /\ last.ret = "Ok"
    /\ last.pre.tag = "EndSent"
    /\ last.id \notin DOMAIN m.map

\* C5: ending_msg_received(id) returns a circuit-protocol error when id has no
\* entry or its entry is EndReceived, and such a call changes neither the map
\* and its open-count nor rxs.
C5_EndErrorsChangeNothing ==
    [][ last'.op = "ending_msg_received" =>
          /\ last'.pre.tag \in {"None", "EndReceived"} => last'.ret = "CircProto"
          /\ last'.ret = "CircProto" =>
                /\ last'.pre.tag \in {"None", "EndReceived"}
                /\ m' = m
                /\ rxs' = rxs
                /\ n_open_streams' = n_open_streams ]_vars

\* C5 witness: a second END was refused on an EndReceived entry, which is
\* still there.
C5_Witness ==
    /\ last.op = "ending_msg_received" /\ last.ret = "CircProto"
    /\ last.pre.tag = "EndReceived"
    /\ get_mut(last.id) = EndReceivedEnt

\* What C6 says terminate does to an Open entry.
C6_Effect ==
    /\ last.ret = "Send"
    /\ get_mut(last.id).tag = "EndSent"
    /\ get_mut(last.id).explicitly_dropped = (last.why = "StreamTargetClosed")
    /\ last.id \notin DOMAIN rxs
    /\ \A i \in DOMAIN ps_poll_ready_iter(rxs) : ps_poll_ready_iter(rxs)[i] # last.id

\* C6 as stated: terminate on an Open entry returns Send, leaves EndSent with
\* explicitly_dropped = (reason = StreamTargetClosed) and removes the source
\* from rxs, so that poll_ready_streams_iter no longer yields the stream.
C6_Original ==
    (last.op = "terminate" /\ last.pre.tag = "Open") => C6_Effect

\* C6 amended: the same, for an Open entry whose dropped count does not exceed
\* RECV_WINDOW_INIT; with a larger count terminate returns an error.
C6_Amended ==
    (last.op = "terminate" /\ last.pre.tag = "Open") =>
        IF last.pre.dropped <= RECV_WINDOW_INIT
        THEN C6_Effect
        ELSE last.ret = "CircProto"

\* C6 witness: the owner's handle was dropped on an open stream that had
\* dropped messages; the entry is EndSent, flagged as explicitly dropped.
C6_Witness ==
    /\ last.op = "terminate" /\ last.why = "StreamTargetClosed"
    /\ last.pre.tag = "Open" /\ last.pre.dropped > 0
    /\ last.ret = "Send"
    /\ get_mut(last.id).explicitly_dropped

\* The consequences C7 draws: between the add that created a stream and the
\* removal of its entry terminate returns Send at most once, and never after
\* ending_msg_received succeeded on it.
C7_SendOnce ==
    /\ \A id \in DOMAIN hist : hist[id].sends <= 1
    /\ (last.op = "terminate" /\ last.ret = "Send") =>
          /\ last.id \in DOMAIN hist
          /\ ~hist[last.id].ended

\* C7 as stated: terminate returns Send if and only if the entry was Open.
C7_Original ==
    /\ last.op = "terminate" => (last.ret = "Send" <=> last.pre.tag = "Open")
    /\ C7_SendOnce

\* C7 amended: terminate returns Send if and only if the entry was Open with a
\* dropped count of at most RECV_WINDOW_INIT; hence at most once per stream,
\* and never after ending_msg_received succeeded.
C7_Amended ==
    /\ last.op = "terminate" =>
          (last.ret = "Send" <=>
              (last.pre.tag = "Open" /\ last.pre.dropped <= RECV_WINDOW_INIT))
    /\ C7_SendOnce

\* C7 witness: terminate is called again on a stream for which it has
\* returned Send, and does not return Send.
C7_Witness ==
    /\ last.op = "terminate" /\ last.ret # "Send"
    /\ last.id \in DOMAIN hist
    /\ hist[last.id].sends = 1

\* C8: terminate(id, StreamTargetClosed) on an EndSent entry whose flag is
\* false returns DontSend, and the entry stays in the map as EndSent with
\* explicitly_dropped = TRUE.
C8_FlagIsSet ==
    (/\ last.op = "terminate" /\ last.why = "StreamTargetClosed"
     /\ last.pre.tag = "EndSent" /\ ~last.pre.explicitly_dropped) =>
        /\ last.ret = "DontSend"
        /\ get_mut(last.id).tag = "EndSent"
        /\ get_mut(last.id).explicitly_dropped

\* C9: once terminate has returned Send for a stream, its EndSent entry stays
\* in the map until the peer's END arrives, whatever terminate calls come in
\* between; no ending_msg_received on it fails in the meantime.
C9_EndSentRetained ==
    \A id \in DOMAIN hist :
        (hist[id].sends > 0 /\ ~hist[id].ended) =>
            /\ get_mut(id).tag = "EndSent"
            /\ ~(last.op = "ending_msg_received" /\ last.id = id /\ last.ret # "Ok")

\* C10: terminate reports its failures as errors: API misuse on an EndSent
\* entry with reason ExplicitEnd or with explicitly_dropped set and reason
\* StreamTargetClosed, an internal error on an id without entry; no panic.
C10_TerminateErrors ==
    last.op = "terminate" =>
        /\ (last.pre.tag = "EndSent" /\ last.why = "ExplicitEnd") =>
              (last.ret = "BadApiUsage" /\ panicked = "none")
        /\ (/\ last.pre.tag = "EndSent" /\ last.pre.explicitly_dropped
            /\ last.why = "StreamTargetClosed") =>
              (last.ret = "BadApiUsage" /\ panicked = "none")
        /\ last.pre.tag = "None" =>
              (last.ret = "Internal" /\ panicked = "none")

\* C10 witness: a stream closed by dropping its owner's handle is closed a
\* second time, which is reported as API misuse.
C10_Witness ==
    /\ last.op = "terminate" /\ last.why = "StreamTargetClosed"
    /\ last.pre.tag = "EndSent" /\ last.pre.explicitly_dropped
    /\ last.ret = "BadApiUsage"

\* The step is a call of take_ready_msg that returned a message.
TookMsg == last'.op = "take_ready_msg" /\ last'.ret = "Some"

\* The sequence seq without the stream id s.
Without(seq, s) == SelectSeq(seq, LAMBDA x : x # s)

\* C11: when take_ready_msg(s) returns a message, s gets a priority above that
\* of every other stream, so the ready streams keep their order except that s,
\* if it is still ready, moves behind all of them: (a, b, c) becomes (b, c, a).
C11_TakenGoesLast ==
    [][ TookMsg =>
          LET s == last'.id IN
          /\ \A t \in DOMAIN rxs' \ {s} : rxs'[s].priority > rxs'[t].priority
          /\ ps_poll_ready_iter(rxs') =
                Without(ps_poll_ready_iter(rxs), s)
                    \o (IF ps_ready(rxs', s) THEN <<s>> ELSE << >>) ]_vars

\* C11 witness: of three ready streams added as 65535, 1, 2 a message was
\* taken from the first, which is still ready and now comes after the others.
C11_Witness ==
    /\ last.op = "take_ready_msg" /\ last.ret = "Some" /\ last.id = 65535
    /\ ps_poll_ready_iter(rxs) = <<1, 2, 65535>>

\* C12: when the reactor always takes the message of the first stream yielded,
\* a stream S gives a message only when every other stream that had a message
\* waiting at S's previous message, and is still open, has given one since.
C12_NoStarvation ==
    [][ (TookMsg /\ last'.id \in DOMAIN hist) =>
          {t \in hist[last'.id].owed : t \in DOMAIN rxs /\ IsOpen(cm_get(m, t))} = {} ]_vars

\* C12 witness: stream 65535 gave a message while stream 1 had one waiting,
\* stream 1 has given its message since and is still open, and 65535 is now
\* the first ready stream again, with its next message.
C12_Witness ==
    /\ 65535 \in DOMAIN hist /\ 1 \in hist[65535].served
    /\ hist[65535].owed = {}
    /\ IsOpen(cm_get(m, 1))
    /\ ReadyStreams # << >> /\ ReadyStreams[1] = 65535
    /\ ps_can_take(rxs, 65535)

\* C13: the messages of one stream are taken in the order they were queued:
\* a step leaves a stream's queue alone, or its owner appends a message, or
\* take_ready_msg removes the oldest message and returns that very message;
\* and take_ready_msg returns a message only by removing it.
C13_Fifo ==
    [][ /\ \A id \in DOMAIN rxs :
             /\ id \in DOMAIN rxs'
             /\ LET q == rxs[id].pending
                    r == rxs'[id].pending
                IN  \/ r = q /\ ~(TookMsg /\ last'.id = id)
                    \/ /\ last'.op = "env"
                       /\ Len(r) = Len(q) + 1
                       /\ SubSeq(r, 1, Len(q)) = q
                    \/ /\ TookMsg /\ last'.id = id
                       /\ q # << >>
                       /\ last'.val = q[1]
                       /\ Len(r) = Len(q) - 1
                       /\ \A i \in 1..Len(r) : r[i] = q[i + 1]
        /\ TookMsg => last'.id \in DOMAIN rxs ]_vars

\* C13 witness: a stream was sent SENDME and then DATA; the first take gave
\* SENDME, and DATA is what the stream still holds.
C13_Witness ==
    /\ last.op = "take_ready_msg" /\ last.ret = "Some" /\ last.val = "SENDME"
    /\ rxs[last.id].pending = <<"DATA">>

\* C14: poll_ready_streams_iter yields, in ascending priority, exactly the
\* Open streams whose source has a message waiting or was closed by its
\* sender, and yields no EndSent, EndReceived or removed stream.
C14_PollYieldsOpenReady ==
    last.op = "poll_ready_streams_iter" =>
        /\ last.ret = "Ok"
        /\ last.yielded = ps_sorted(rxs, {id \in OpenIds : ps_ready(rxs, id)})
        /\ \A i \in 1..Len(last.yielded) : IsOpen(cm_get(m, last.yielded[i]))

\* C15: the priority counter never goes back; a stream gets a priority only
\* from the counter, which then moves on, and that priority is above every
\* priority held in rxs before; so no two streams in rxs hold the same one.
C15_PrioritiesIncrease ==
    [][ /\ next_priority' \in {next_priority, next_priority + 1}
        /\ \A id \in DOMAIN rxs' :
              (id \notin DOMAIN rxs \/ rxs'[id].priority # rxs[id].priority) =>
                  /\ rxs'[id].priority = next_priority
                  /\ next_priority' = next_priority + 1
                  /\ \A t \in DOMAIN rxs : rxs[t].priority < rxs'[id].priority
        /\ \A a, b \in DOMAIN rxs' :
              a # b => rxs'[a].priority # rxs'[b].priority ]_vars

\* C15 witness: a second stream was added, by add_ent_with_id, and holds
\* priority 1, above the priority 0 of the stream added first.
C15_Witness ==
    /\ last.op = "add_ent_with_id" /\ last.ret = "Ok"
    /\ Cardinality(DOMAIN rxs) = 2
    /\ rxs[last.id].priority = 1
    /\ \E t \in DOMAIN rxs : rxs[t].priority = 0

\* The step is a call of add_ent that returned an id.
AddEntOk == last'.op = "add_ent" /\ last'.ret = "Ok"

\* The number of steps from id a to id b in the cyclic order 1..65535.
CyclicDist(a, b) == (b - a) % STREAM_ID_MAX

\* C16: a successful add_ent returns the first id without an entry, in the
\* cyclic order of 1..65535 from next_stream_id (every id before it in that
\* order has an entry, of whatever variant), puts an Open entry there and
\* leaves next_stream_id at the wrapping successor of that id; when
\* next_stream_id itself has no entry, that is the id returned, so that
\* consecutive calls return consecutive ids.
C16_FirstVacantId ==
    [][ AddEntOk =>
          LET id == last'.id
              before == {j \in DOMAIN m.map :
                           CyclicDist(next_stream_id, j) < CyclicDist(next_stream_id, id)}
          IN  /\ id \in 1..STREAM_ID_MAX
              /\ id \notin DOMAIN m.map
              /\ Cardinality(before) = CyclicDist(next_stream_id, id)
              /\ next_stream_id \notin DOMAIN m.map => id = next_stream_id
              /\ IsOpen(cm_get(m', id))
              /\ \A j \in DOMAIN m.map : cm_get(m', j) = cm_get(m, j)
              /\ next_stream_id' = IF id = STREAM_ID_MAX THEN 1 ELSE id + 1 ]_vars

\* C16 witness: from next_stream_id = 65535 add_ent gave 65535 and then,
\* passing over the entry of id 1, which is not open, gave 2.
C16_Witness ==
    /\ last.op = "add_ent" /\ last.ret = "Ok" /\ last.id = 2
    /\ STREAM_ID_MAX \in DOMAIN m.map
    /\ 1 \in DOMAIN m.map /\ ~IsOpen(m.map[1])
    /\ next_stream_id = 3

\* C17: add_ent fails with IdRangeFull exactly when every id of 1..65535 has
\* an entry; with an id vacant it succeeds; a failing call changes neither
\* the map nor rxs.
C17_IdRangeFull ==
    [][ last'.op = "add_ent" =>
          LET full == Cardinality(DOMAIN m.map) = STREAM_ID_MAX
          IN  /\ last'.ret = "IdRangeFull" <=> full
              /\ ~full => last'.ret = "Ok"
              /\ last'.ret = "IdRangeFull" => (m' = m /\ rxs' = rxs) ]_vars

\* C18: add_ent_with_id(id) on an id without entry puts an Open entry at id
\* and enrols its source in rxs; on an id with an entry of any variant it
\* fails with IdUnavailable and changes neither the map, nor rxs, nor the
\* priority counter, nor next_stream_id.
C18_AddEntWithId ==
    [][ last'.op = "add_ent_with_id" =>
          LET id == last'.id
          IN  IF id \notin DOMAIN m.map
              THEN /\ last'.ret = "Ok"
                   /\ IsOpen(cm_get(m', id))
                   /\ id \in DOMAIN rxs'
                   /\ \A j \in DOMAIN m.map : cm_get(m', j) = cm_get(m, j)
              ELSE /\ last'.ret = "IdUnavailable"
                   /\ m' = m
                   /\ rxs' = rxs
                   /\ next_priority' = next_priority
                   /\ next_stream_id' = next_stream_id ]_vars

\* C19: next_stream_id is never zero and no id returned by add_ent is zero:
\* both stay within 1..65535, also when the ids wrap around past 65535.
C19_IdsNeverZero ==
    /\ next_stream_id \in 1..STREAM_ID_MAX
    /\ (last.op = "add_ent" /\ last.ret = "Ok") =>
          /\ last.id \in 1..STREAM_ID_MAX
          /\ last.id \in DOMAIN m.map

\* C19 witness: add_ent gave 65535 and next_stream_id has wrapped to 1; the
\* next add_ent gave 1.
C19_Witness ==
    /\ last.op = "add_ent" /\ last.ret = "Ok" /\ last.id = 1
    /\ STREAM_ID_MAX \in DOMAIN m.map
    /\ next_stream_id = 2

\* C20: wrapping_next_stream_id(k) is k + 1 for 1 <= k < 0xFFFF and 1 for
\* k = 0xFFFF; it is never 0.
C20_WrappingNext ==
    last.op = "wrapping_next_stream_id" =>
        /\ (1 <= last.id /\ last.id < 65535) => next_stream_id = last.id + 1
        /\ last.id = 65535 => next_stream_id = 1
        /\ next_stream_id # 0

\* C20 witness: the function was applied to 0xFFFF and gave 1.
C20_Witness ==
    /\ last.op = "wrapping_next_stream_id" /\ last.id = 65535
    /\ next_stream_id = 1

(* C21: comparing a tracker with a deadline t yields the ordering of the
   tracker's time against t, for the wall-clock tracker, the monotonic
   tracker and the offset view (whose time is now - offset): tracker < t
   exactly when that time is before t, tracker == t exactly when they are
   equal, and the reversed form, t compared with the tracker, is the mirror
   image. *)
C21_CmpOrdersNowAgainstT ==
    tracker.op.name = "cmp" =>
        LET o == tracker.op IN
        /\ PartialOrd_partial_cmp(o.ord) = Some(ord_cmp(o.now, o.t))
        /\ PartialOrd_partial_cmp_reversed(o.ord) = Some(ord_cmp(o.t, o.now))
        /\ PartialEq_eq(o.ord) <=> (o.now = o.t)

\* The same, of the wall-clock tracker alone.
C21_SystemTimeOnly ==
    (tracker.op.name = "cmp" /\ tracker.op.on = "system_time") =>
        LET o == tracker.op IN
        /\ PartialOrd_partial_cmp(o.ord) = Some(ord_cmp(o.now, o.t))
        /\ PartialOrd_partial_cmp_reversed(o.ord) = Some(ord_cmp(o.t, o.now))
        /\ PartialEq_eq(o.ord) <=> (o.now = o.t)

\* The least element of a nonempty set of numbers.
SetMin(S) == CHOOSE x \in S : \A y \in S : x <= y

\* The time from a threshold until t, zero when t is not after it.
UntilFrom(threshold, t) == IF t > threshold THEN t - threshold ELSE 0

\* The minimum an earliest cell should hold after the given deadlines.
MinOf(S) == IF S = {} THEN None ELSE Some(SetMin(S))

EarliestIsMin ==
    /\ tracker.system_earliest = MinOf(tracker.asked_system)
    /\ tracker.instant_earliest =
          MinOf({UntilFrom(a[1], a[2]) : a \in tracker.asked_instant})

EarliestNeverRises ==
    /\ tracker.system_earliest # None =>
          /\ tracker'.system_earliest # None
          /\ tracker'.system_earliest[1] <= tracker.system_earliest[1]
    /\ tracker.instant_earliest # None =>
          /\ tracker'.instant_earliest # None
          /\ tracker'.instant_earliest[1] <= tracker.instant_earliest[1]

(* C22: the recorded earliest deadline is the minimum over everything the
   tracker was compared with or updated to: the least deadline itself for
   the wall-clock tracker, the least max(0, deadline - threshold) as a
   duration for the monotonic tracker; it is none exactly when there was no
   comparison or update, and it never increases. *)
C22_EarliestIsMin == [](EarliestIsMin) /\ [][EarliestNeverRises]_vars

\* The monotonic cell holds the least of two durations, the wall-clock cell
\* a deadline.
C22_Witness ==
    /\ tracker.instant_earliest = Some(1)
    /\ <<tracker.instant_now, 3>> \in tracker.asked_instant
    /\ tracker.system_earliest = Some(2)
    /\ 2 \in tracker.asked_system

\* A step that compares an offset view with a deadline.
OffsetCmpStep ==
    /\ tracker' # tracker
    /\ tracker'.op.name = "cmp"
    /\ tracker'.op.on = "offset"

\* A step that calls checked_sub.
CheckedSubStep ==
    /\ tracker' # tracker
    /\ tracker'.op.name = "checked_sub"

OffsetViewsShareEarliest ==
    /\ OffsetCmpStep =>
          /\ tracker'.op.now \in tracker.views
          /\ tracker'.instant_earliest # None
          /\ tracker'.instant_earliest[1] <= UntilFrom(tracker'.op.now, tracker'.op.t)
          /\ tracker.instant_earliest # None =>
                tracker'.instant_earliest[1] <= tracker.instant_earliest[1]
          /\ tracker'.system_earliest = tracker.system_earliest
    /\ CheckedSubStep =>
          /\ tracker'.instant_earliest = tracker.instant_earliest
          /\ tracker'.system_earliest = tracker.system_earliest
          /\ LET offset == tracker'.op.t IN
             IF offset > tracker.instant_now
             THEN tracker'.op.ret = None /\ tracker'.views = tracker.views
             ELSE /\ tracker'.op.ret = Some(tracker.instant_now - offset)
                  /\ tracker'.views = tracker.views \cup {tracker.instant_now - offset}

(* C25: every offset view made by checked_sub(offset) shares its parent's
   earliest cell: comparing the view with t lowers the parent's minimum to at
   most max(0, t - (now - offset)), all the views of one parent update it,
   and checked_sub itself, also when it returns none, leaves the minimum as
   it was. *)
C25_OffsetViewsShareEarliest == [][OffsetViewsShareEarliest]_vars

\* Two views of one parent were compared, and the parent holds the lesser.
C25_Witness ==
    /\ tracker.op.on = "offset"
    /\ tracker.instant_earliest = Some(1)
    /\ <<0, 2>> \in tracker.asked_instant
    /\ <<1, 2>> \in tracker.asked_instant
    /\ {0, 1} \subseteq tracker.views

WaitPending(kinds) == tracker.phase = "waiting" /\ tracker.waiting_on \in kinds
WaitDone(kinds) == tracker.phase = "done" /\ tracker.waiting_on \in kinds

\* The greater of two numbers, and the lesser.
Max2(a, b) == IF a >= b THEN a ELSE b
Min2(a, b) == IF a <= b THEN a ELSE b

\* The instant at which the wait began, and the present instant; the same on
\* the wall clock.
InstantStart == tracker.instant_now + tracker.started
InstantPresent == tracker.instant_now + tracker.clock
SystemStart == tracker.system_now + tracker.started
SystemPresent == tracker.system_now + tracker.clock

\* The recorded monotonic deadline as an instant, and the moment the sleep
\* for it ends when it is begun `started` late.
InstantDeadline == tracker.instant_now + tracker.instant_earliest[1]
InstantWakeup == InstantStart + tracker.instant_earliest[1]

SingleWaitSafe ==
    /\ WaitDone({"instant"}) =>
          /\ tracker.instant_earliest # None
          /\ InstantPresent >= InstantDeadline
          /\ InstantPresent = InstantWakeup
    /\ WaitDone({"system_time"}) =>
          /\ tracker.system_earliest # None
          /\ SystemPresent = Max2(SystemStart, tracker.system_earliest[1])

(* C23: wait_for_earliest on a tracker of a single clock completes once the
   recorded minimum deadline has been reached and not before; it never
   completes if the tracker was never compared with anything. *)
C23_SingleWait ==
    /\ [](SingleWaitSafe)
    /\ (WaitPending({"instant"}) /\ tracker.instant_earliest # None) ~> WaitDone({"instant"})
    /\ (WaitPending({"system_time"}) /\ tracker.system_earliest # None)
          ~> WaitDone({"system_time"})

\* A wait on the monotonic tracker, begun at once, is over two units later,
\* at the deadline.
C23_Witness ==
    /\ WaitDone({"instant"})
    /\ tracker.started = 0
    /\ tracker.instant_earliest = Some(2)
    /\ tracker.clock = 2

\* The moments, counted from the tracker's construction, at which the two
\* recorded minima have elapsed for a wait begun at `started`.
ElapseTimes ==
    (IF tracker.instant_earliest = None THEN {}
     ELSE {tracker.started + tracker.instant_earliest[1]})
    \cup
    (IF tracker.system_earliest = None THEN {}
     ELSE {Max2(tracker.started, tracker.system_earliest[1] - tracker.system_now)})

CombinedWaitSafe ==
    WaitDone({"combined"}) =>
        /\ ElapseTimes # {}
        /\ tracker.clock = SetMin(ElapseTimes)

(* C24: wait_for_earliest on the combined tracker completes as soon as the
   earlier of the monotonic minimum and the wall-clock minimum has elapsed;
   if only one clock has a recorded deadline it completes at that one, and if
   neither has it never completes. *)
C24_CombinedWait ==
    /\ [](CombinedWaitSafe)
    /\ (WaitPending({"combined"}) /\ ElapseTimes # {}) ~> WaitDone({"combined"})

\* Monotonic deadline two units ahead, wall-clock deadline one unit ahead:
\* the wait is over after one unit.
C24_Witness ==
    /\ WaitDone({"combined"})
    /\ tracker.started = 0
    /\ tracker.instant_earliest = Some(2)
    /\ tracker.system_earliest = Some(tracker.system_now + 1)
    /\ tracker.clock = 1

\* A u32 is at most another.
U32Le(x, y) == x[1] < y[1] \/ (x[1] = y[1] /\ x[2] <= y[2])

\* The four base-256 digits of a u32, least first, numbered from 0.
Digit(u, i) ==
    IF i = 0 THEN u[2] % 256
    ELSE IF i = 1 THEN u[2] \div 256
    ELSE IF i = 2 THEN u[1] % 256
    ELSE u[1] \div 256

\* The sum of the digit products of x and y that land on digit k.
RECURSIVE Column(_, _, _, _)
Column(x, y, k, i) ==
    IF i > k \/ i > 3 THEN 0
    ELSE (IF k - i <= 3 THEN Digit(x, i) * Digit(y, k - i) ELSE 0)
             + Column(x, y, k, i + 1)

\* The carry out of digit k in the long multiplication of x and y.
RECURSIVE Carry(_, _, _)
Carry(x, y, k) ==
    (Column(x, y, k, 0) + (IF k = 0 THEN 0 ELSE Carry(x, y, k - 1))) \div 256

\* x * y <= 2^32 - 1, by long multiplication in base 256: nothing lands on
\* or is carried into the digits from the fifth on.
ProductFits(x, y) ==
    /\ Carry(x, y, 3) = 0
    /\ \A k \in 4..6 : Column(x, y, k, 0) = 0

\* The whole part of (2^32 - 1) / effort, for an effort of the table.
FloorOf(e) == (CHOOSE row \in EffortTable : row[1] = e)[2]

CheckedEffort == challenge.op.name = "check_effort"
EffortOk == challenge.op.ret = "Ok"

(* C26: check_effort passes exactly when value * effort <= 2^32 - 1, which
   for effort > 0 is the same as value <= floor((2^32 - 1) / effort); with
   effort 0 or 1 it passes for every value. *)
C26_EffortThreshold ==
    CheckedEffort =>
        /\ EffortOk <=> ProductFits(challenge.op.value, challenge.effort)
        /\ challenge.effort # U32(0, 0) =>
              (EffortOk <=> U32Le(challenge.op.value, FloorOf(challenge.effort)))
        /\ challenge.effort \in {U32(0, 0), U32(0, 1)} => EffortOk

\* A value one above the threshold of effort 1000 was refused.
C26_Witness ==
    /\ CheckedEffort
    /\ challenge.effort = U32(0, 1000)
    /\ challenge.op.value = U32(65, 35128)
    /\ ~EffortOk

\* The challenge carries the greatest effort there is.
GreatestEffort == challenge.effort = U32_MAX

(* C27, as stated for an effort of 2^32, read at the effort nearest to it
   that a challenge can carry: check_effort fails for every nonzero hash
   value and passes only for 0. *)
C27_Original ==
    (CheckedEffort /\ GreatestEffort) =>
        (EffortOk <=> challenge.op.value = U32(0, 0))

(* C27, amended: at the greatest effort, 2^32 - 1, check_effort fails for
   every hash value above 1 and passes only for 0 and 1. *)
C27_Amended ==
    (CheckedEffort /\ GreatestEffort) =>
        (EffortOk <=> challenge.op.value \in {U32(0, 0), U32(0, 1)})

\* The value 2 was refused at the greatest effort.
C27_Witness ==
    /\ CheckedEffort
    /\ GreatestEffort
    /\ challenge.op.value = U32(0, 2)
    /\ ~EffortOk

\* The challenge as Challenge::new made it.
Fresh == challenge.built /\ challenge.incs = 0

\* The fields of the challenge, at their places counted in bytes from 1.
Layout ==
    LET b == challenge.bytes IN
    /\ Len(b) >= 100
    /\ \A i \in 1..Len(b) : b[i] \in 0..255
    /\ SubSeq(b, 1, 16) = P_STRING
    /\ SubSeq(b, 17, 48) = challenge.instance.service
    /\ SubSeq(b, 49, 80) = challenge.instance.seed
    /\ SubSeq(b, 81, 96) = challenge.nonce
    /\ b[97] * 256 + b[98] = challenge.effort[1]
    /\ b[99] * 256 + b[100] = challenge.effort[2]

(* C28, as stated: the assembled challenge is exactly 56 bytes: the 16-byte
   personalization string, the 32-byte service identity, the 32-byte seed,
   the 16-byte nonce and the 4-byte big-endian effort, in that order. *)
C28_Original == Fresh => (Len(challenge.bytes) = 56 /\ Layout)

(* C28, amended: the assembled challenge is exactly 100 bytes: the 16-byte
   personalization string, the 32-byte service identity, the 32-byte seed,
   the 16-byte nonce and the 4-byte big-endian effort, in that order. *)
C28_Amended ==
    Fresh => (~challenge.panic /\ Len(challenge.bytes) = 100 /\ Layout)

\* A new challenge whose five fields all differ.
C28_Witness ==
    /\ challenge.op.name = "new"
    /\ challenge.effort = U32(0, 1000)
    /\ challenge.nonce = NonceOf(1, 254)
    /\ challenge.instance.service # challenge.instance.seed
    /\ Len(challenge.bytes) = 100

(* C29: the challenge made by Challenge::new(I, E, N) reads back what it
   was made of: seed() is I.seed(), nonce() is N and effort() is E. *)
C29_ReadBack ==
    Fresh =>
        /\ challenge.op.name = "seed" => challenge.op.ret = challenge.instance.seed
        /\ challenge.op.name = "nonce" => challenge.op.ret = challenge.nonce
        /\ challenge.op.name = "effort" => challenge.op.ret = challenge.effort

\* effort() returned 1000 on a new challenge of effort 1000.
C29_Witness ==
    /\ Fresh
    /\ challenge.op.name = "effort"
    /\ challenge.effort = U32(0, 1000)
    /\ challenge.op.ret = U32(0, 1000)

\* A 16-byte string read as a little-endian number, in eight digits of base
\* 2^16, least first.
Limbs(b) == [j \in 1..8 |-> b[2 * j - 1] + 256 * b[2 * j]]

\* That number plus one, modulo 2^128: the leading digits that are 2^16 - 1
\* become zero and the digit after them goes up by one.
LimbSucc(l) ==
    LET k == Cardinality({j \in 1..8 : \A i \in 1..j : l[i] = 65535}) IN
    [j \in 1..8 |-> IF j <= k THEN 0 ELSE IF j = k + 1 THEN l[j] + 1 ELSE l[j]]

IncrementStep == challenge'.incs = challenge.incs + 1

IncrementAddsOne ==
    IncrementStep =>
        LET old == challenge.bytes
            after == challenge'.bytes
        IN  /\ Len(after) = Len(old)
            /\ Limbs(SubSeq(after, 81, 96)) = LimbSucc(Limbs(SubSeq(old, 81, 96)))
            /\ \A i \in 81..96 : after[i] \in 0..255
            /\ \A i \in (1..Len(old)) \ (81..96) : after[i] = old[i]

\* After some increments, fewer than 2^128, the nonce is not the first one.
NoEarlyReturn == challenge.incs > 0 => Challenge_nonce(challenge.bytes) # challenge.nonce

(* C30: increment_nonce adds 1 to the 16-byte nonce read as a little-endian
   number, modulo 2^128 (all 0xFF becomes all zero), and changes no byte
   outside the nonce; so the nonce comes back to its first value after 2^128
   increments and not earlier. *)
C30_IncrementNonce == [](NoEarlyReturn) /\ [][IncrementAddsOne]_vars

\* The nonce of sixteen 0xFF bytes became all zero in one increment.
C30_Witness ==
    /\ challenge.incs = 1
    /\ challenge.nonce = Bytes(NONCE_LEN, 255)
    /\ Challenge_nonce(challenge.bytes) = Bytes(NONCE_LEN, 0)

\* add_ent_with_id(id) would find id vacant and enrol its source.
CanAllocate(id) == id \notin DOMAIN m.map /\ ps_can_insert(rxs, id)

(* C33: terminate(id, reason) on an EndReceived entry, for either reason,
   removes the entry and returns DontSend; afterwards get_mut(id) gives
   nothing and the id may be allocated again. *)
C33_TerminateEndReceived ==
    (last.op = "terminate" /\ last.pre.tag = "EndReceived") =>
        /\ last.ret = "DontSend"
        /\ get_mut(last.id) = NoEnt
        /\ CanAllocate(last.id)

\* The EndSent entries of the map.
EndSentIds == {id \in DOMAIN m.map : cm_get(m, id).tag = "EndSent"}

(* C34: when terminate moves an Open entry to EndSent, the half-stream holds
   the open entry's send window unchanged and a receive window of
   RECV_WINDOW_INIT minus the entry's dropped count; the receive window is
   never negative. *)
C34_HalfStreamWindows ==
    /\ (last.op = "terminate" /\ last.pre.tag = "Open" /\ last.ret = "Send") =>
          /\ get_mut(last.id).tag = "EndSent"
          /\ get_mut(last.id).send_window = last.pre.send_window
          /\ get_mut(last.id).recv_window = 500 - last.pre.dropped
    /\ \A id \in EndSentIds : cm_get(m, id).recv_window >= 0

\* An open stream with send window 499 that dropped 250 messages was closed.
C34_Witness ==
    /\ last.op = "terminate" /\ last.ret = "Send"
    /\ last.pre.send_window = 499
    /\ last.pre.dropped = 250
    /\ get_mut(last.id).recv_window = 250

(* C35: no sequence of operations makes poll_ready_streams_iter panic with
   "Missing open stream": every stream the scheduler reports as ready, also
   one whose END has just come from the peer while a message was queued,
   has an Open entry in the map. *)
C35_NoMissingOpenStream ==
    /\ panicked # "Missing open stream"
    /\ \A id \in DOMAIN rxs : ps_ready(rxs, id) => IsOpen(cm_get(m, id))

(* C36: no sequence of operations makes add_ent or add_ent_with_id panic on
   the insertion into the scheduling structure: an id that is vacant in the
   map, never used or fully closed, has no source there. *)
C36_NoInsertPanic ==
    /\ panicked # "Unexpected rx entry for unused StreamId"
    /\ \A id \in DOMAIN rxs : id \in DOMAIN m.map

TerminateErrors == {"BadApiUsage", "Internal", "CircProto"}

(* C37: every terminate call that returns an error (misuse on an EndSent
   entry, an absent id, or a dropped count the fresh receive window cannot
   be debited by) leaves the map entries, the scheduling structure and the
   open count as they were before the call. *)
C37_ErrorChangesNothing ==
    [][ (last'.op = "terminate" /\ last'.ret \in TerminateErrors) =>
          (m' = m /\ rxs' = rxs) ]_vars

\* The items pulled from the inner iterator so far.
Pulled == SubSeq(filter.items, 1, Len(filter.items) - Len(filter.inner))

PredHolds(item) == pred_holds(filter.pred, item)
PredFails(item) == ~pred_holds(filter.pred, item)

(* C39: filter_cnt sets the count it is given to zero when the filter is
   made, and after any number of next() calls n_accepted is the number of
   items the filter has yielded and n_accepted + n_rejected the number of
   items pulled from the inner iterator; items not yet considered are not
   counted. *)
C39_CountsFollowItems ==
    filter.phase = "filtering" =>
        /\ filter.op = "filter_cnt" => filter.count = FilterCount(0, 0)
        /\ filter.count.n_accepted = Len(filter.yielded)
        /\ filter.count.n_accepted + filter.count.n_rejected = Len(Pulled)
        /\ filter.yielded = SelectSeq(Pulled, PredHolds)
        /\ filter.count.n_rejected = Len(SelectSeq(Pulled, PredFails))

\* The first even item of 1, 2, 3 was yielded, by a filter given a count
\* that was in use before: one accepted, one rejected, one not considered.
C39_Witness ==
    /\ filter.op = "next"
    /\ filter.items = <<1, 2, 3>>
    /\ filter.pred = "even"
    /\ filter.calls = 1
    /\ filter.yielded = <<2>>
    /\ filter.inner = <<3>>
    /\ filter.count = FilterCount(1, 1)

\* Both "accept L" and "reject L" were parsed, and L is a list that parses.
BothParsed ==
    /\ {"accept ", "reject "} \subseteq DOMAIN policy.parsed
    /\ policy.parsed["accept "].ok

Ports == 1..65535

(* C40: for every strictly increasing list L of port ranges within 1..65535
   that do not overlap, the policy parsed from "reject L" allows a port of
   1..65535 exactly when the policy parsed from "accept L" does not; the
   inversion makes no empty range and none out of 1..65535, also when L
   begins at port 1, ends at port 65535 or holds adjacent ranges. *)
C40_RejectIsComplement ==
    BothParsed =>
        LET accepts == policy.parsed["accept "].allowed
            rejects == policy.parsed["reject "]
        IN  /\ rejects.ok
            /\ ~rejects.overflow
            /\ \A i \in 1..Len(rejects.allowed) :
                  /\ 1 <= rejects.allowed[i].lo
                  /\ rejects.allowed[i].lo <= rejects.allowed[i].hi
                  /\ rejects.allowed[i].hi <= 65535
            /\ \A p \in Ports :
                  allows_port(rejects.allowed, p) <=> ~allows_port(accepts, p)

\* L is 1-2,80-65535: it begins at port 1 and ends at port 65535, and
\* "reject L" allows 3-79 alone.
C40_Witness ==
    /\ BothParsed
    /\ policy.items = <<PortRange_new_unchecked(1, 2), PortRange_new_unchecked(80, 65535)>>
    /\ policy.parsed["reject "].allowed = <<PortRange_new_unchecked(3, 79)>>

\* The FFI function has returned (or, on a panic, has been left).
Returned == ffi.phase = "call" /\ ffi.pc = "returned"

\* What a cell holds after the call: never its previous contents where the
\* out-pointer is not NULL, and nothing is written where it is NULL.
Overwritten(ptr, cell) ==
    IF ptr = "NULL" THEN cell = "unmapped" ELSE cell \in {"NULL", "new"}

(* C38: when an FFI function returns, on invalid input and in every other
   outcome, every declared conversion has been attempted, each out-pointer
   argument that is not NULL points at NULL or at a newly allocated value and
   never at its previous contents, and nothing was written through a NULL
   out-pointer. *)
C38_OutPointersInitialized ==
    Returned =>
        /\ Len(ffi.results) = Len(ffi.args)
        /\ \A i \in DOMAIN ffi.args :
              ffi.args[i].how \in OutHows =>
                  Overwritten(ffi.args[i].ptr, ffi.cells[i])
        /\ ffi.macro = "ffi_body_with_err" =>
              Overwritten(ffi.err_out, ffi.err_cell)

\* The first conversion fails on a NULL pointer and the second, an optional
\* out-pointer, has still been set to NULL when the function returns.
C38_Witness ==
    /\ Returned
    /\ ffi.ret = "on invalid"
    /\ ffi.args = <<[how |-> "in_ptr_required", ptr |-> "NULL"],
                    [how |-> "out_ptr_opt", ptr |-> "valid"]>>
    /\ ffi.cells = <<"unmapped", "NULL">>

\* Both blindings of the test were made.
BothBlinded ==
    /\ keymanip.phase = "blinding"
    /\ keymanip.blinded_pk # None
    /\ keymanip.blinded_kp # None

(* C31: for every expanded key pair kp whose public key decompresses and
   every blinding input h, blind_pubkey(kp.public, h) is the public key of
   blind_keypair(kp, h): both succeed and give the same key. *)
C31_BlindingCommutes ==
    (BothBlinded /\ decompress(keymanip.kp.public) # None) =>
        /\ keymanip.blinded_pk[1].ok
        /\ ~keymanip.blinded_kp[1].panic
        /\ keymanip.blinded_kp[1].ret.ok
        /\ keymanip.blinded_pk[1].v = keymanip.blinded_kp[1].ret.v.public

\* The secret scalar 3 blinded by the input 0, which clamps to 64 = 13 mod
\* ELL: both give the public key of the scalar 39 mod ELL = 5.
C31_Witness ==
    /\ BothBlinded
    /\ keymanip.kp.secret.scalar = 3
    /\ keymanip.h = 0
    /\ keymanip.blinded_kp[1].ret.ok
    /\ keymanip.blinded_kp[1].ret.v.secret.scalar = 5
    /\ keymanip.blinded_pk[1] = Ok(compress(<<5, 0>>))

\* Both conversions of the test were made.
BothConverted ==
    /\ keymanip.phase = "convert"
    /\ keymanip.ed_kp # None
    /\ keymanip.ed_pk2 # None

(* C32: for every curve25519 secret s, the private conversion gives an
   expanded key pair and a sign bit, and the public conversion of the
   curve25519 public key of s with that sign bit gives the public key of the
   expanded key pair. *)
C32_ConversionsAgree ==
    /\ (keymanip.phase = "convert" /\ keymanip.ed_kp # None) =>
          (~keymanip.ed_kp[1].panic /\ keymanip.ed_kp[1].ret # None)
    /\ BothConverted =>
          keymanip.ed_pk2[1] = Some(keymanip.ed_kp[1].ret[1].keypair.public)

\* A secret whose public key has the sign bit set, converted both ways.
C32_Witness ==
    /\ BothConverted
    /\ keymanip.ed_kp[1].ret[1].signbit = 1
    /\ keymanip.curve_sk # clamp_integer(keymanip.curve_sk)
    /\ keymanip.ed_pk2[1] = Some(keymanip.ed_kp[1].ret[1].keypair.public)

====
